---- MODULE Spec2Model ----
(***************************************************************************)
(* Eval orchestration of mini-llm-prophet: the resume resolution of the    *)
(* CLI, run_eval's work queue and worker pool, process_problem with its    *)
(* failure classification, the rate-limit gate and the summary store.      *)
(* Identities (run_id) are the integers 1..NumTasks; costs are integers.   *)
(***************************************************************************)
EXTENDS Integers, Sequences, FiniteSets, TLC

\* ---------------------------------------------------------------- bounds
NumTasks == 2
NumWorkers == 2
MaxFaults == 2
\* rate-limit responses the providers give to the tasks they do not throttle
MaxRateLimits == 1
\* calls of signal_rate_limit made on the coordinator exercised on its own
MaxSignals == 3
\* entries of the `runs` list of a summary.json given to load_existing_summary
MaxRuns == 2
\* lines of a problems file given to load_problems
MaxLines == 3

\* ------------------------------------------------------ program constants
MAX_RETRIES == 3
AgentCost == 1
BudgetLimit == 1
\* EvalRunArgs.timeout_seconds: float = 180.0
DEFAULT_TIMEOUT_SECONDS == 180

\* what a successful run can cost: nothing, or AgentCost
Costs == {0, AgentCost}

Tasks == 1..NumTasks
Workers == 1..NumWorkers
\* a run_id that is not in the input file
ForeignId == NumTasks + 1

NoTask == 0
NoResult == [status |-> "absent", cost |-> 0]
\* summary.json: whole = the text on disk is a complete JSON document
NoFile == [exists |-> FALSE, whole |-> TRUE, total_cost |-> 0, runs |-> [t \in {} |-> NoResult]]
\* the file as open(path, "w") leaves it: truncated to zero length
Truncated == [exists |-> TRUE, whole |-> FALSE, total_cost |-> 0, runs |-> [t \in {} |-> NoResult]]

\* ------------------------------------------------------------ exceptions
\* An exception is its type name and what its message matches:
\* rl = the message contains "429" or "rate limit", au = the message
\* contains one of the auth tokens.
TimeoutExc == [type |-> "BatchRunTimeoutError", rl |-> FALSE, au |-> FALSE]
OSErrorExc == [type |-> "OSError", rl |-> FALSE, au |-> FALSE]
\* no exception
NoExc == [type |-> "none", rl |-> FALSE, au |-> FALSE]
AgentExceptions ==
    { [type |-> "SearchAuthError", rl |-> FALSE, au |-> FALSE],
      [type |-> "SearchRateLimitError", rl |-> FALSE, au |-> FALSE] }
    \cup { [type |-> "RuntimeError", rl |-> r, au |-> a] : r \in BOOLEAN, a \in BOOLEAN }

RETRYABLE_EXCEPTIONS == {"SearchRateLimitError"}

_is_rate_limit_error(exc) == exc.type \in RETRYABLE_EXCEPTIONS \/ exc.rl

\* "auth" in the lower-cased type name, or an auth token in the message
_is_auth_error(exc) == exc.type \in {"SearchAuthError"} \/ exc.au

IsTerminal(status) == status \notin {"absent", "pending"}

\* ----------------------------------------------------------------- state
VARIABLES
    main_pc,        \* position of the caller (CLI main / run_eval)
    resume,         \* --resume
    max_cost,       \* --max-cost
    workers,        \* --workers: the threads run_eval starts
    timeout_seconds, \* --timeout-seconds (0 or less: runs are not supervised)
    throttle,       \* the tasks whose every call the provider may rate-limit
    disk,           \* summary.json
    prior,          \* history: summary.json as the CLI found it
    problems,       \* the list handed to run_eval
    results,        \* state.results : run_id -> RunResult
    total_cost,     \* state.total_cost_ref[0]
    retries,        \* problem.retries
    queue,          \* the Queue's items
    unfinished,     \* the Queue's unfinished_tasks
    ahead,          \* history: the tasks queued when a task was last re-enqueued and not yet taken out
    fatal_event,    \* state.fatal_event
    fatal_error,    \* state.fatal_error (the run the message names)
    gate_resumed,   \* RateLimitCoordinator._resume
    timers,         \* pending auto-resume timers
    pc,             \* position of each worker
    held,           \* the problem a worker took from the queue
    ret,            \* how process_problem leaves once its finally is done
    snap,           \* the summary dict built by _write_summary, not yet written
    faults,         \* summary writes that have failed
    rateLimits,     \* rate-limit exceptions raised so far
    attempts,       \* history: calls of process_problem per task
    allRate,        \* history: every attempt of the task was rate-limited only
    unstartedAtFatal, \* history: tasks queued and never attempted when the flag was set
    inflightAtFatal, \* history: tasks other workers were executing when the flag was set
    deqFatal,       \* history: the flag was set when the worker dequeued its task
    gpc,            \* position of each caller of the coordinator in wait_if_paused
    gret,           \* what the caller's last wait_if_paused returned
    cancelled,      \* the caller's cancel_event
    blocked,        \* history: the call in progress has found the gate paused
    signals,        \* history: calls of signal_rate_limit
    pauses,         \* history: calls of signal_rate_limit that found the gate resumed
    lastExc,        \* history: what the latest attempt of each task raised
    cancel_event,   \* the cancel_event process_problem made for the worker's run
    spc,            \* position of each caller of _run_agent_with_timeout
    rpc,            \* position of the agent.run the call started
    done_event,     \* the done event of the call
    holder,         \* what _target left in result_holder / error_holder
    sret,           \* how the call of _run_agent_with_timeout ended
    summary_file,   \* a summary.json as text: missing, not JSON, or a JSON value
    st_results,     \* results of an orchestrator state: run_id -> RunResult
    st_total_cost,  \* total_cost_ref[0] of that state
    load_ret,       \* what load_existing_summary returned or raised
    store_pc,       \* position of the caller of the summary store
    jsonl,          \* the lines of a problems file
    lp_ret,         \* what load_problems returned or raised
    lp_pc,          \* position of the caller of load_problems
    step_pc,        \* position of each agent in its step method
    agent_kind,     \* "batch": BatchForecastAgent, "wrapped": an agent in EvalBatchAgentWrapper
    stepped,        \* the underlying step of the current call has run
    detached        \* the thread of each task's run once its supervisor has given up on it

gateVars == <<gpc, gret, cancelled, blocked, signals, pauses>>
stepVars == <<step_pc, agent_kind, stepped>>
supVars == <<spc, rpc, done_event, holder, sret>>
storeVars == <<summary_file, st_results, st_total_cost, load_ret, store_pc>>
inputVars == <<jsonl, lp_ret, lp_pc>>
cfgVars == <<resume, max_cost, workers, timeout_seconds, throttle, prior>>
coordVars == <<gate_resumed, timers>>
fatalVars == <<fatal_event, fatal_error, unstartedAtFatal, inflightAtFatal>>
queueVars == <<queue, unfinished, ahead>>
vars == <<main_pc, resume, max_cost, workers, timeout_seconds, throttle, prior, disk, problems, results, total_cost, retries,
          queue, unfinished, ahead, fatal_event, fatal_error, gate_resumed, timers,
          pc, held, ret, snap, faults, rateLimits, attempts, allRate,
          unstartedAtFatal, inflightAtFatal, deqFatal, gpc, gret, cancelled, blocked, signals, pauses,
          lastExc, cancel_event, spc, rpc, done_event, holder, sret,
          summary_file, st_results, st_total_cost, load_ret, store_pc,
          jsonl, lp_ret, lp_pc, step_pc, agent_kind, stepped, detached>>

NoSnap == [exists |-> FALSE, whole |-> TRUE, total_cost |-> 0, runs |-> [t \in {} |-> NoResult]]

\* ------------------------------------------------------------- helpers
RECURSIVE SeqFilter(_, _)
SeqFilter(s, keep) ==
    IF s = <<>> THEN <<>>
    ELSE IF Head(s) \in keep THEN <<Head(s)>> \o SeqFilter(Tail(s), keep)
         ELSE SeqFilter(Tail(s), keep)

Range(s) == { s[i] : i \in 1..Len(s) }

\* the input file's problems, in file order
InputProblems == [i \in 1..NumTasks |-> i]

\* RunResult(run_id, title): status "pending", zero cost
NewRunResult == [status |-> "pending", cost |-> 0]

\* state.results.setdefault(run_id, RunResult(...))
SetDefault(res, t) == IF res[t] = NoResult THEN [res EXCEPT ![t] = NewRunResult] ELSE res

\* the summary document built from the state: total_cost and one run per result
SummaryOf(cost, res) ==
    [exists |-> TRUE, whole |-> TRUE, total_cost |-> cost,
     runs |-> [t \in {u \in DOMAIN res : res[u] # NoResult} |-> res[t]]]

\* load_existing_summary: run_id -> RunResult for the runs of the document
LoadedResults(doc) ==
    [t \in Tasks \cup {ForeignId} |-> IF t \in DOMAIN doc.runs THEN doc.runs[t] ELSE NoResult]

\* ------------------------------------------------------- summary store
\* JSON values, which are also the Python values json.loads gives: t is the
\* type, v the content (a string, a number, a tuple of values, or a function
\* from keys to values)
JNull == [t |-> "null"]
JNum(n) == [t |-> "num", v |-> n]
JStr(str) == [t |-> "str", v |-> str]
JList(items) == [t |-> "list", v |-> items]
\* a key the object does not have
Absent == [t |-> "absent"]
\* the object with the fields of r that are not Absent
JObj(r) == [t |-> "obj", v |-> [k \in { j \in DOMAIN r : r[j] # Absent } |-> r[k]]]
\* no summary.json, and a summary.json whose text json.loads rejects
Missing == [t |-> "missing"]
Garbage == [t |-> "garbage"]
EmptyMap == [k \in {} |-> JNull]

\* payload.get(key, default)
Get(payload, key, default) == IF key \in DOMAIN payload.v THEN payload.v[key] ELSE default
\* str(x)
Str(x) ==
    CASE x.t = "str" -> x.v
      [] x.t = "num" -> ToString(x.v)
      [] x.t = "null" -> "None"
      [] OTHER -> "repr"
\* mutant: the stored number is dropped
OrZeroAlways(x) == 0
\* float(x or 0.0), for x a number or None
OrZero(x) == IF x.t = "num" THEN x.v ELSE 0

\* RunResult.from_dict
from_dict(payload) ==
    LET c == Get(payload, "cost", JObj(EmptyMap))
        cost == IF c.t = "obj" THEN c ELSE JObj(EmptyMap) IN
    [run_id |-> Str(Get(payload, "run_id", JStr(""))),
     title |-> Str(Get(payload, "title", JStr(""))),
     status |-> Str(Get(payload, "status", JStr("pending"))),
     cost |-> [model |-> OrZero(Get(cost, "model", JNum(0))),
               search |-> OrZero(Get(cost, "search", JNum(0))),
               total |-> OrZero(Get(cost, "total", JNum(0)))],
     submission |-> Get(payload, "submission", JNull),
     evaluation |-> Get(payload, "evaluation", JNull),
     error |-> Get(payload, "error", JNull),
     output_dir |-> Str(Get(payload, "output_dir", JStr("")))]

\* RunResult.to_dict, as json.dumps writes it
to_dict(r) ==
    JObj([run_id |-> JStr(r.run_id),
          title |-> JStr(r.title),
          status |-> JStr(r.status),
          cost |-> JObj([model |-> JNum(r.cost.model), search |-> JNum(r.cost.search),
                         total |-> JNum(r.cost.total)]),
          submission |-> r.submission,
          evaluation |-> r.evaluation,
          error |-> r.error,
          output_dir |-> JStr(r.output_dir)])

\* for item in runs: non-dicts are skipped, a run without run_id is dropped,
\* a later run replaces an earlier one of the same run_id
RECURSIVE LoadRuns(_, _)
LoadRuns(items, acc) ==
    IF items = <<>> THEN acc
    ELSE LET item == Head(items)
             run == from_dict(item) IN
         IF item.t # "obj" THEN LoadRuns(Tail(items), acc)
         ELSE IF run.run_id = "" THEN LoadRuns(Tail(items), acc)
         ELSE LoadRuns(Tail(items),
                       [k \in DOMAIN acc \cup {run.run_id} |->
                           IF k = run.run_id THEN run ELSE acc[k]])

Returned(res, cost) == [exc |-> "none", results |-> res, total_cost |-> cost]
Raised(e) == [exc |-> e, results |-> EmptyMap, total_cost |-> 0]

\* load_existing_summary(path)
load_existing_summary(file) ==
    IF file = Missing THEN Returned(EmptyMap, 0)
    ELSE IF file = Garbage THEN Raised("ValueError")
    ELSE IF file.t # "obj" THEN Raised("AttributeError")
    ELSE LET runs == Get(file, "runs", JList(<<>>)) IN
         IF runs.t # "list" THEN Raised("ValueError")
         ELSE Returned(LoadRuns(runs.v, EmptyMap), OrZero(Get(file, "total_cost", JNum(0))))

\* [r.to_dict() for r in state.results.values()]
RECURSIVE Values(_, _)
Values(res, ids) ==
    IF ids = {} THEN <<>>
    ELSE LET id == CHOOSE k \in ids : TRUE IN <<to_dict(res[id])>> \o Values(res, ids \ {id})

\* _write_summary: the document json.dumps(summary) puts in summary.json
WriteSummary(res, cost) ==
    JObj([eval_config |-> JObj(EmptyMap),
          eval |-> JObj([agent_name |-> JStr("default"), agent_import_path |-> JNull]),
          total_cost |-> JNum(cost),
          runs |-> JList(Values(res, DOMAIN res))])

\* the summary store is not exercised
NotLoaded == Raised("not called")
StoreIdle ==
    /\ summary_file = Missing
    /\ st_results = EmptyMap
    /\ st_total_cost = 0
    /\ load_ret = NotLoaded
    /\ store_pc = "off"

\* ------------------------------------------------------- problems file
\* A line of the file: blank, text json.loads rejects, a payload
\* ForecastTaskRow rejects, or a valid row whose task_id is None (key absent
\* or null) or a string.
NoneId == "None"
BlankLine == [kind |-> "blank", task_id |-> NoneId]
BadJson == [kind |-> "badjson", task_id |-> NoneId]
BadSchema == [kind |-> "badschema", task_id |-> NoneId]
Row(id) == [kind |-> "row", task_id |-> id]
\* f"task_{auto_idx}"
AutoId(auto_idx) == <<"task_0", "task_1", "task_2", "task_3", "task_4", "task_5">>[auto_idx + 1]
\* row.task_id or f"task_{auto_idx}"
TaskIdOf(row, auto_idx) == IF row.task_id \in {NoneId, ""} THEN AutoId(auto_idx) ELSE row.task_id
\* def row_to_problem(row, run_id, offset=0)
row_to_problem_params == [names |-> {"row", "run_id", "offset"}, required |-> {"row", "run_id"}]
\* row_to_problem(row, task_id=task_id, offset=offset): the arguments the
\* call binds
CallKeywords == {"row", "task_id", "offset"}
\* a call binds when every argument names a parameter and every required
\* parameter has an argument; otherwise Python raises TypeError
CallBinds(params, args) == args \subseteq params.names /\ params.required \subseteq args

ProblemsReturned(ids) == [exc |-> "none", run_ids |-> ids]
ProblemsRaised(e) == [exc |-> e, run_ids |-> <<>>]

\* the loop of load_problems over the remaining lines
RECURSIVE LoadLines(_, _, _, _)
LoadLines(lines, seen_ids, auto_idx, ids) ==
    IF lines = <<>> THEN ProblemsReturned(ids)
    ELSE LET line == Head(lines)
             task_id == TaskIdOf(line, auto_idx)
             next_idx == IF line.task_id = NoneId THEN auto_idx + 1 ELSE auto_idx IN
         CASE line.kind = "blank" -> LoadLines(Tail(lines), seen_ids, auto_idx, ids)
           [] line.kind \in {"badjson", "badschema"} -> ProblemsRaised("ValueError")
           [] OTHER ->
                IF task_id \in seen_ids THEN ProblemsRaised("ValueError")
                ELSE IF ~CallBinds(row_to_problem_params, CallKeywords)
                     THEN ProblemsRaised("TypeError")
                ELSE LoadLines(Tail(lines), seen_ids \cup {task_id}, next_idx,
                               Append(ids, task_id))

\* load_problems(path)
load_problems(lines) == LoadLines(lines, {}, 0, <<>>)

\* load_problems is not exercised
InputIdle ==
    /\ jsonl = <<>>
    /\ lp_ret = ProblemsRaised("not called")
    /\ lp_pc = "off"

\* ------------------------------------------------------------------ Init
\* summaries an earlier run of this program can have left behind
PriorResults == { NoResult, [status |-> "pending", cost |-> 0],
                  [status |-> "submitted", cost |-> AgentCost] }

RECURSIVE SumCost(_, _)
SumCost(res, S) ==
    IF S = {} THEN 0
    ELSE LET t == CHOOSE u \in S : TRUE IN res[t].cost + SumCost(res, S \ {t})

PriorSummaries ==
    { SummaryOf(SumCost(r, DOMAIN r), r) : r \in [Tasks \cup {ForeignId} -> PriorResults] }

InitRun ==
    /\ main_pc = "resolve"
    /\ problems = <<>>
    /\ results = [t \in Tasks |-> NoResult]
    /\ total_cost = 0
    /\ retries = [t \in Tasks |-> 0]
    /\ queue = <<>>
    /\ unfinished = 0
    /\ ahead = [t \in Tasks |-> {}]
    /\ fatal_event = FALSE
    /\ fatal_error = NoTask
    /\ gate_resumed = TRUE
    /\ timers = 0
    /\ pc = [w \in Workers |-> "idle"]
    /\ held = [w \in Workers |-> NoTask]
    /\ ret = [w \in Workers |-> "none"]
    /\ snap = [w \in Workers \cup {0} |-> NoSnap]
    /\ faults = 0
    /\ attempts = [t \in Tasks |-> 0]
    /\ allRate = [t \in Tasks |-> TRUE]
    /\ unstartedAtFatal = {}
    /\ inflightAtFatal = {}
    /\ deqFatal = [w \in Workers |-> FALSE]
    /\ gpc = [w \in Workers |-> "idle"]
    /\ gret = [w \in Workers |-> "none"]
    /\ cancelled = [w \in Workers |-> FALSE]
    /\ blocked = [w \in Workers |-> FALSE]
    /\ signals = 0
    /\ pauses = 0
    /\ step_pc = [w \in Workers |-> "idle"]
    /\ agent_kind = [w \in Workers |-> "batch"]
    /\ stepped = [w \in Workers |-> FALSE]
    /\ detached = [t \in Tasks |-> "none"]
    /\ lastExc = [t \in Tasks |-> NoExc]
    /\ cancel_event = [w \in Workers |-> FALSE]
    /\ spc = [w \in Workers |-> "idle"]
    /\ rpc = [w \in Workers |-> "idle"]
    /\ done_event = [w \in Workers |-> FALSE]
    /\ holder = [w \in Workers |-> "empty"]
    /\ sret = [w \in Workers |-> "none"]
    /\ prior = disk

\* a fresh output directory
Init ==
    /\ max_cost \in {0, BudgetLimit}
    /\ workers \in 1..NumWorkers
    /\ timeout_seconds = DEFAULT_TIMEOUT_SECONDS
    /\ resume = FALSE
    /\ disk = NoFile
    /\ throttle = {}
    /\ rateLimits = 0
    /\ StoreIdle
    /\ InputIdle
    /\ InitRun

\* a fresh output directory, and a provider that rate-limits the calls of one
\* task for as long as it is retried, and no other call
InitRetry ==
    /\ max_cost \in {0, BudgetLimit}
    /\ workers = NumWorkers
    /\ timeout_seconds = DEFAULT_TIMEOUT_SECONDS
    /\ resume = FALSE
    /\ disk = NoFile
    /\ throttle = {InputProblems[1]}
    /\ rateLimits = MaxRateLimits
    /\ StoreIdle
    /\ InputIdle
    /\ InitRun

\* a fresh output directory and no cost budget
InitUnlimited ==
    /\ max_cost = 0
    /\ workers = NumWorkers
    /\ timeout_seconds = DEFAULT_TIMEOUT_SECONDS
    /\ resume = FALSE
    /\ disk = NoFile
    /\ throttle = {}
    /\ rateLimits = 0
    /\ StoreIdle
    /\ InputIdle
    /\ InitRun

\* --resume against whatever an earlier run left in the output directory
InitResume ==
    /\ max_cost \in {0, BudgetLimit}
    /\ workers = NumWorkers
    /\ timeout_seconds = DEFAULT_TIMEOUT_SECONDS
    /\ resume = TRUE
    /\ disk \in {NoFile} \cup PriorSummaries
    /\ throttle = {}
    /\ rateLimits = 0
    /\ StoreIdle
    /\ InputIdle
    /\ InitRun

\* ------------------------------------------------- CLI: resume resolution
\* mutant: the summary's run_ids are not compared with the input's
UnexpectedIgnored(loaded) == {}

\* set(resume_results) - input_run_ids
Unexpected(loaded) == { t \in DOMAIN loaded : loaded[t] # NoResult } \ Range(InputProblems)

\* mutant: nothing is filtered out
FilterNothing(loaded) == InputProblems

\* [p for p in problems if p.run_id not in resume_results]
FilterProblems(loaded) ==
    SeqFilter(InputProblems, { t \in Tasks : loaded[t] = NoResult })

\* _resolve_resume_state, then EvalRunArgs(initial_results=..., initial_total_cost=...)
ResolveResume ==
    /\ main_pc = "resolve"
    /\ IF ~resume \/ ~disk.exists
       THEN /\ problems' = InputProblems
            /\ main_pc' = "seed"
            /\ UNCHANGED <<results, total_cost>>
       ELSE LET loaded == LoadedResults(disk) IN
            IF Unexpected(loaded) # {}
            THEN /\ main_pc' = "exit1"
                 /\ UNCHANGED <<problems, results, total_cost>>
            ELSE /\ problems' = FilterProblems(loaded)
                 /\ results' = [t \in Tasks |-> loaded[t]]
                 /\ total_cost' = disk.total_cost
                 /\ main_pc' = IF FilterProblems(loaded) = <<>> THEN "exit0" ELSE "seed"
    /\ UNCHANGED <<cfgVars, storeVars, inputVars, gateVars, stepVars, supVars, detached, cancel_event, lastExc, disk, retries, queueVars, fatalVars, coordVars, pc, held,
                   ret, snap, faults, rateLimits, attempts, allRate, deqFatal>>

\* ------------------------------------------------------ run_eval: set-up
\* the threads of the executor: one worker_loop per args.workers
Pool == 1..workers

\* the state is built from args, the queue is filled and the workers submitted
SeedQueue ==
    /\ main_pc = "seed"
    /\ queue' = problems
    /\ unfinished' = Len(problems)
    /\ ahead' = ahead
    /\ pc' = [w \in Workers |-> IF w \in Pool THEN "top" ELSE "idle"]
    /\ main_pc' = "join"
    /\ UNCHANGED <<cfgVars, storeVars, inputVars, gateVars, stepVars, supVars, detached, cancel_event, lastExc, disk, problems, results, total_cost, retries, fatalVars,
                   coordVars, held, ret, snap, faults, rateLimits, attempts, allRate, deqFatal>>

\* ------------------------------------------------------------ the Queue
\* mutant: a re-enqueued task goes to the front
PutFront(q, t) == <<t>> \o q

\* queue.put(problem): the item joins at the back
Put(q, t) == Append(q, t)

\* mutant: get returns the first item without removing it
DequeueKeeps(q) == q

\* queue.get / get_nowait: what is left once the first item is taken out
Dequeue(q) == Tail(q)

\* mutant: task_done acknowledges nothing
task_done_nothing(n) == n

\* queue.task_done(): unfinished_tasks afterwards
task_done(n) == n - 1

\* the history of re-enqueues once task u has been taken out of the queue
Passed(a, u) == [t \in Tasks |-> a[t] \ {u}]

\* --------------------------------------------------------- worker_loop
\* if state.fatal_event.is_set(): return
WorkerTop(w) ==
    /\ pc[w] = "top"
    /\ pc' = [pc EXCEPT ![w] = IF fatal_event THEN "exit" ELSE "get"]
    /\ UNCHANGED <<main_pc, cfgVars, storeVars, inputVars, gateVars, stepVars, supVars, detached, cancel_event, lastExc, disk, problems, results, total_cost, retries,
                   queueVars, fatalVars, coordVars, held, ret, snap, faults, rateLimits,
                   attempts, allRate, deqFatal>>

\* problem = queue.get(timeout=0.5)
WorkerGet(w) ==
    /\ pc[w] = "get"
    /\ queue # <<>>
    /\ held' = [held EXCEPT ![w] = Head(queue)]
    /\ queue' = Dequeue(queue)
    /\ ahead' = Passed(ahead, Head(queue))
    /\ deqFatal' = [deqFatal EXCEPT ![w] = fatal_event]
    /\ pc' = [pc EXCEPT ![w] = "chk"]
    /\ UNCHANGED <<main_pc, cfgVars, storeVars, inputVars, gateVars, stepVars, supVars, detached, cancel_event, lastExc, disk, problems, results, total_cost, retries,
                   unfinished, fatalVars, coordVars, ret, snap, faults, rateLimits,
                   attempts, allRate>>

\* the get timed out on an empty queue: Empty is raised
WorkerGetEmpty(w) ==
    /\ pc[w] = "get"
    /\ queue = <<>>
    /\ pc' = [pc EXCEPT ![w] = "empty"]
    /\ UNCHANGED <<main_pc, cfgVars, storeVars, inputVars, gateVars, stepVars, supVars, detached, cancel_event, lastExc, disk, problems, results, total_cost, retries,
                   queueVars, fatalVars, coordVars, held, ret, snap, faults, rateLimits,
                   attempts, allRate, deqFatal>>

\* except Empty: if queue.empty() or state.fatal_event.is_set(): return; continue
WorkerEmpty(w) ==
    /\ pc[w] = "empty"
    /\ pc' = [pc EXCEPT ![w] = IF queue = <<>> \/ fatal_event THEN "exit" ELSE "top"]
    /\ UNCHANGED <<main_pc, cfgVars, storeVars, inputVars, gateVars, stepVars, supVars, detached, cancel_event, lastExc, disk, problems, results, total_cost, retries,
                   queueVars, fatalVars, coordVars, held, ret, snap, faults, rateLimits,
                   attempts, allRate, deqFatal>>

\* mutant: the flag is not looked at again after the get
WorkerChkIgnoresFatal(w) == "pp_enter"

\* if state.fatal_event.is_set(): return, else on to process_problem
WorkerChkGoesOn(w) == IF fatal_event THEN "fin_exit" ELSE "pp_enter"

\* try: if state.fatal_event.is_set(): return
WorkerChk(w) ==
    /\ pc[w] = "chk"
    /\ pc' = [pc EXCEPT ![w] = WorkerChkGoesOn(w)]
    /\ UNCHANGED <<main_pc, cfgVars, storeVars, inputVars, gateVars, stepVars, supVars, detached, cancel_event, lastExc, disk, problems, results, total_cost, retries,
                   queueVars, fatalVars, coordVars, held, ret, snap, faults, rateLimits,
                   attempts, allRate, deqFatal>>

\* mutant: the worker returns after its task instead of looping
AfterTryReturns == "fin_exit"

\* where the worker goes once the try block has ended without an exception:
\* through the finally clause into the next iteration
AfterTry == "fin_loop"

\* ------------------------------------------------------ process_problem
\* state.summary_lock is held: some thread is inside write_text
SummaryLockHeld ==
    \/ main_pc = "final_flush"
    \/ \E w \in Workers : pc[w] \in {"pp_flush", "gen_flush"}

\* mutants: the gate never closes; it closes only once the budget is exceeded
BudgetReachedNever(mc, tc) == FALSE
BudgetReachedStrict(mc, tc) == mc > 0 /\ tc > mc

\* if args.max_cost > 0 and state.total_cost_ref[0] >= args.max_cost
BudgetReached(mc, tc) == mc > 0 /\ tc >= mc

\* result = state.results.setdefault(...); then the budget gate
PPEnter(w) ==
    /\ pc[w] = "pp_enter"
    /\ LET t == held[w]
           res == SetDefault(results, t) IN
       /\ attempts' = [attempts EXCEPT ![t] = @ + 1]
       /\ lastExc' = [lastExc EXCEPT ![t] = NoExc]
       /\ cancel_event' = [cancel_event EXCEPT ![w] = FALSE]
       /\ IF BudgetReached(max_cost, total_cost)
          THEN /\ results' = [res EXCEPT ![t].status = "skipped_cost_limit"]
               /\ ret' = [ret EXCEPT ![w] = "true"]
               /\ allRate' = [allRate EXCEPT ![t] = FALSE]
               /\ pc' = [pc EXCEPT ![w] = "pp_snap"]
          ELSE /\ results' = res
               /\ pc' = [pc EXCEPT ![w] = "pp_run"]
               /\ UNCHANGED <<ret, allRate>>
    /\ UNCHANGED <<main_pc, cfgVars, storeVars, inputVars, gateVars, stepVars, supVars, detached, disk, problems, total_cost, retries, queueVars,
                   fatalVars, coordVars, held, snap, faults, rateLimits, deqFatal>>

\* mutant: the cost of a run is not added to the total
AccumulateNothing(total, c) == total
\* mutant: the update of another worker is lost (the sum starts from a stale total)
AccumulateStale(total, c) == c

\* state.total_cost_ref[0] += result.cost["total"]
Accumulate(total, c) == total + c

\* with state.summary_lock: state.total_cost_ref[0] += result.cost["total"]; return True
PPAddCost(w) ==
    /\ pc[w] = "pp_addcost"
    /\ ~SummaryLockHeld
    /\ total_cost' = Accumulate(total_cost, results[held[w]].cost)
    /\ ret' = [ret EXCEPT ![w] = "true"]
    /\ pc' = [pc EXCEPT ![w] = "pp_snap"]
    /\ UNCHANGED <<main_pc, cfgVars, storeVars, inputVars, gateVars, stepVars, supVars, detached, cancel_event, lastExc, disk, problems, results, retries, queueVars,
                   fatalVars, coordVars, held, snap, faults, rateLimits, attempts, allRate,
                   deqFatal>>

\* mutant: every signal clears the event and starts a Timer
signal_rate_limit_always(gate, tm) == <<FALSE, tm + 1>>
\* mutant: the event is cleared and no Timer is started
signal_rate_limit_no_timer(gate, tm) == IF gate THEN <<FALSE, tm>> ELSE <<gate, tm>>

\* RateLimitCoordinator.signal_rate_limit: <<gate, timers>> afterwards
signal_rate_limit(gate, tm) == IF gate THEN <<FALSE, tm + 1>> ELSE <<gate, tm>>

\* mutants: the comparison with MAX_RETRIES is off by one, either way
RetryAllowedOnceMore(n) == n <= MAX_RETRIES
RetryAllowedOnceLess(n) == n < MAX_RETRIES - 1

\* the limit a rate-limited attempt is retried up to
RetryAllowed(n) == n < MAX_RETRIES

\* mutant: a timeout is retried like a rate limit
ClassifyTimeoutRetried(exc, n) ==
    IF exc.type = "SearchAuthError" THEN "fatal"
    ELSE IF exc.type = "BatchRunTimeoutError" /\ RetryAllowed(n) THEN "retry"
    ELSE IF _is_rate_limit_error(exc) /\ RetryAllowed(n) THEN "retry"
    ELSE IF _is_auth_error(exc) THEN "fatal"
    ELSE "failed"

\* how the except clauses classify exc for a task with n retries:
\* "fatal" | "timeout" | "retry" | "failed"
Classify(exc, n) ==
    IF exc.type = "SearchAuthError" THEN "fatal"
    ELSE IF exc.type = "BatchRunTimeoutError" THEN "timeout"
    ELSE IF _is_rate_limit_error(exc) /\ RetryAllowed(n) THEN "retry"
    ELSE IF _is_auth_error(exc) THEN "fatal"
    ELSE "failed"

\* mutant: the cost of the failed attempt is recorded with its status
FailedCharged(res, t, st, c) == [res EXCEPT ![t].status = st, ![t].cost = c]

\* result.status = ...: state.results once an except clause has recorded
\* status st for task t, whose agent had accumulated a cost of c; the
\* clauses do not read the agent's cost
Failed(res, t, st, c) == [res EXCEPT ![t].status = st]

\* the except clause of process_problem that handles exc for worker w
PPExcept(w, exc) ==
    LET t == held[w]
        cls == Classify(exc, retries[t])
        signalled == exc.type \notin {"SearchAuthError", "BatchRunTimeoutError"}
                     /\ _is_rate_limit_error(exc)
        coord == IF signalled THEN signal_rate_limit(gate_resumed, timers)
                 ELSE <<gate_resumed, timers>> IN
    /\ gate_resumed' = coord[1]
    /\ timers' = coord[2]
    /\ retries' = IF cls = "retry" THEN [retries EXCEPT ![t] = @ + 1] ELSE retries
    /\ \E c \in Costs :
          results' = CASE cls = "fatal" -> Failed(results, t, "auth_error", c)
                       [] cls = "retry" -> results
                       [] OTHER -> Failed(results, t, exc.type, c)
    /\ ret' = [ret EXCEPT ![w] = CASE cls = "fatal" -> "fatal"
                                   [] cls = "retry" -> "false"
                                   [] OTHER -> "true"]
    /\ allRate' = [allRate EXCEPT ![t] = @ /\ signalled /\ ~_is_auth_error(exc)]
    /\ lastExc' = [lastExc EXCEPT ![t] = exc]
    /\ pc' = [pc EXCEPT ![w] = "pp_snap"]

\* the agent is built and run to success (each step of the agent first passes
\* coordinator.wait_if_paused); result.status = forecast.get("exit_status");
\* result.cost = {...}
AgentSucceeds(w) ==
    /\ pc[w] = "pp_run"
    /\ gate_resumed
    /\ \E c \in Costs :
          results' = [results EXCEPT ![held[w]] = [status |-> "submitted", cost |-> c]]
    /\ allRate' = [allRate EXCEPT ![held[w]] = FALSE]
    /\ pc' = [pc EXCEPT ![w] = "pp_addcost"]
    /\ UNCHANGED <<main_pc, cfgVars, storeVars, inputVars, gateVars, stepVars, supVars, detached, cancel_event, lastExc, disk, problems, total_cost, retries, queueVars,
                   fatalVars, coordVars, held, ret, snap, faults, rateLimits, attempts, deqFatal>>

\* the construction or the run raises, and the except clauses handle it
AgentRaises(w) ==
    /\ pc[w] = "pp_run"
    /\ \E exc \in AgentExceptions :
          /\ _is_rate_limit_error(exc) =>
                \/ held[w] \in throttle /\ attempts[held[w]] <= MAX_RETRIES + 2
                \/ held[w] \notin throttle /\ rateLimits < MaxRateLimits
          /\ rateLimits' = IF _is_rate_limit_error(exc) /\ held[w] \notin throttle
                           THEN rateLimits + 1 ELSE rateLimits
          /\ PPExcept(w, exc)
    /\ UNCHANGED <<main_pc, cfgVars, storeVars, inputVars, gateVars, stepVars, supVars, detached, cancel_event, disk, problems, total_cost, queueVars, fatalVars,
                   held, snap, faults, attempts, deqFatal>>

\* _run_agent_with_timeout: done.wait(timeout) expired; cancel_event.set();
\* BatchRunTimeoutError is raised and handled
SupervisorTimeout(w) ==
    /\ pc[w] = "pp_run"
    /\ timeout_seconds > 0
    /\ cancel_event' = [cancel_event EXCEPT ![w] = TRUE]
    /\ detached' = [detached EXCEPT ![held[w]] = "running"]
    /\ PPExcept(w, TimeoutExc)
    /\ UNCHANGED <<main_pc, cfgVars, storeVars, inputVars, gateVars, stepVars, supVars, disk, problems, total_cost, queueVars, fatalVars,
                   held, snap, faults, rateLimits, attempts, deqFatal>>

\* finally: _write_summary builds the summary dict from the state ...
PPSnap(w) ==
    /\ pc[w] = "pp_snap"
    /\ snap' = [snap EXCEPT ![w] = SummaryOf(total_cost, results)]
    /\ pc' = [pc EXCEPT ![w] = "pp_write"]
    /\ UNCHANGED <<main_pc, cfgVars, storeVars, inputVars, gateVars, stepVars, supVars, detached, cancel_event, lastExc, disk, problems, results, total_cost, retries,
                   queueVars, fatalVars, coordVars, held, ret, faults, rateLimits, attempts,
                   allRate, deqFatal>>

\* ... takes summary_lock and opens summary.json for writing (write_text) ...
PPOpen(w) ==
    /\ pc[w] = "pp_write"
    /\ ~SummaryLockHeld
    /\ disk' = Truncated
    /\ pc' = [pc EXCEPT ![w] = "pp_flush"]
    /\ UNCHANGED <<main_pc, cfgVars, storeVars, inputVars, gateVars, stepVars, supVars, detached, cancel_event, lastExc, problems, results, total_cost, retries, queueVars,
                   fatalVars, coordVars, held, ret, snap, faults, rateLimits, attempts,
                   allRate, deqFatal>>

\* mutant: process_problem leaves without the text having been written
PPWriteSkipped(w) ==
    /\ pc[w] = "pp_flush"
    /\ snap' = [snap EXCEPT ![w] = NoSnap]
    /\ pc' = [pc EXCEPT ![w] = CASE ret[w] = "fatal" -> "fatal"
                                 [] ret[w] = "false" -> "ret_chk"
                                 [] OTHER -> AfterTry]
    /\ UNCHANGED <<main_pc, cfgVars, storeVars, inputVars, gateVars, stepVars, supVars, detached, cancel_event, lastExc, disk, problems, results, total_cost, retries, queueVars,
                   fatalVars, coordVars, held, ret, faults, rateLimits, attempts, allRate, deqFatal>>

\* ... and writes the text and closes; process_problem then returns or raises
PPWrite(w) ==
    /\ pc[w] = "pp_flush"
    /\ disk' = snap[w]
    /\ snap' = [snap EXCEPT ![w] = NoSnap]
    /\ pc' = [pc EXCEPT ![w] = CASE ret[w] = "fatal" -> "fatal"
                                 [] ret[w] = "false" -> "ret_chk"
                                 [] OTHER -> AfterTry]
    /\ UNCHANGED <<main_pc, cfgVars, storeVars, inputVars, gateVars, stepVars, supVars, detached, cancel_event, lastExc, problems, results, total_cost, retries, queueVars,
                   fatalVars, coordVars, held, ret, faults, rateLimits, attempts, allRate, deqFatal>>

\* ------------------------------------------------- worker_loop, continued
\* mutant: a task that is not done is dropped instead of re-enqueued
RequeueNever(done, fatal) == FALSE

\* not done and not state.fatal_event.is_set()
RequeueWanted(done, fatal) == ~done /\ ~fatal

\* if not done and not state.fatal_event.is_set():
WorkerRetChk(w) ==
    /\ pc[w] = "ret_chk"
    /\ pc' = [pc EXCEPT ![w] = IF RequeueWanted(FALSE, fatal_event) THEN "put" ELSE "fin_loop"]
    /\ UNCHANGED <<main_pc, cfgVars, storeVars, inputVars, gateVars, stepVars, supVars, detached, cancel_event, lastExc, disk, problems, results, total_cost, retries,
                   queueVars, fatalVars, coordVars, held, ret, snap, faults, rateLimits,
                   attempts, allRate, deqFatal>>

\* queue.put(problem)
WorkerPut(w) ==
    /\ pc[w] = "put"
    /\ queue' = Put(queue, held[w])
    /\ unfinished' = unfinished + 1
    /\ ahead' = [ahead EXCEPT ![held[w]] = Range(queue)]
    /\ pc' = [pc EXCEPT ![w] = AfterTry]
    /\ UNCHANGED <<main_pc, cfgVars, storeVars, inputVars, gateVars, stepVars, supVars, detached, cancel_event, lastExc, disk, problems, results, total_cost, retries,
                   fatalVars, coordVars, held, ret, snap, faults, rateLimits, attempts,
                   allRate, deqFatal>>

\* mutant: every fatal observation stores its message
FatalMessageLast(isset, old, new) == new

\* if not state.fatal_event.is_set(): state.fatal_error = str(exc)
FatalMessage(isset, old, new) == IF isset THEN old ELSE new

\* mutant: the handler cancels the runs of the other workers
FatalCancelsRuns(ce, w) == [v \in Workers |-> ce[v] \/ v # w]

\* the cancel events once the handler has run: it does not touch them
FatalCancels(ce, w) == ce

\* except BatchFatalError: with state.fatal_lock: set the flag and the message once
WorkerFatal(w) ==
    /\ pc[w] = "fatal"
    /\ fatal_event' = TRUE
    /\ fatal_error' = FatalMessage(fatal_event, fatal_error, held[w])
    /\ cancel_event' = FatalCancels(cancel_event, w)
    /\ unstartedAtFatal' = IF fatal_event THEN unstartedAtFatal
                           ELSE { t \in Range(queue) : attempts[t] = 0 }
    /\ inflightAtFatal' = IF fatal_event THEN inflightAtFatal
                          ELSE { held[v] : v \in { u \in Workers \ {w} : pc[u] = "pp_run" } }
    /\ pc' = [pc EXCEPT ![w] = "drain"]
    /\ UNCHANGED <<main_pc, cfgVars, storeVars, inputVars, gateVars, stepVars, supVars, detached, lastExc, disk, problems, results, total_cost, retries,
                   queueVars, coordVars, held, ret, snap, faults, rateLimits, attempts,
                   allRate, deqFatal>>

\* _drain_pending_queue: one get_nowait + task_done per step, until Empty; return
WorkerDrain(w) ==
    /\ pc[w] = "drain"
    /\ IF queue # <<>>
       THEN /\ queue' = Dequeue(queue)
            /\ unfinished' = task_done(unfinished)
            /\ ahead' = Passed(ahead, Head(queue))
            /\ pc' = pc
       ELSE /\ pc' = [pc EXCEPT ![w] = "fin_exit"]
            /\ UNCHANGED queueVars
    /\ UNCHANGED <<main_pc, cfgVars, storeVars, inputVars, gateVars, stepVars, supVars, detached, cancel_event, lastExc, disk, problems, results, total_cost, retries,
                   fatalVars, coordVars, held, ret, snap, faults, rateLimits, attempts,
                   allRate, deqFatal>>

\* finally: queue.task_done(); then the next iteration, or the return
WorkerFinally(w) ==
    /\ pc[w] \in {"fin_loop", "fin_exit"}
    /\ unfinished' = task_done(unfinished)
    /\ held' = [held EXCEPT ![w] = NoTask]
    /\ ret' = [ret EXCEPT ![w] = "none"]
    /\ deqFatal' = [deqFatal EXCEPT ![w] = FALSE]
    /\ pc' = [pc EXCEPT ![w] = IF pc[w] = "fin_loop" THEN "top" ELSE "exit"]
    /\ UNCHANGED <<main_pc, cfgVars, storeVars, inputVars, gateVars, stepVars, supVars, detached, cancel_event, lastExc, disk, problems, results, total_cost, retries,
                   queue, ahead, fatalVars, coordVars, snap, faults, rateLimits, attempts, allRate>>

\* -------------------------------------------------- RateLimitCoordinator
\* the Timer started by signal_rate_limit fires: self._resume.set()
TimerFires ==
    /\ timers > 0
    /\ timers' = timers - 1
    /\ gate_resumed' = TRUE
    /\ UNCHANGED <<main_pc, cfgVars, storeVars, inputVars, gateVars, stepVars, supVars, detached, cancel_event, lastExc, disk, problems, results, total_cost, retries,
                   queueVars, fatalVars, pc, held, ret, snap, faults, rateLimits, attempts,
                   allRate, deqFatal>>

\* ------------------------------------------------- run_eval, continued
\* queue.join() returns
MainJoin ==
    /\ main_pc = "join"
    /\ unfinished = 0
    /\ main_pc' = "shutdown"
    /\ UNCHANGED <<cfgVars, storeVars, inputVars, gateVars, stepVars, supVars, detached, cancel_event, lastExc, disk, problems, results, total_cost, retries, queueVars,
                   fatalVars, coordVars, pc, held, ret, snap, faults, rateLimits, attempts,
                   allRate, deqFatal>>

\* f.result(timeout=1) for each future, then the executor's shutdown(wait=True)
MainShutdown ==
    /\ main_pc = "shutdown"
    /\ \A w \in Pool : pc[w] = "exit"
    /\ main_pc' = "final_snap"
    /\ UNCHANGED <<cfgVars, storeVars, inputVars, gateVars, stepVars, supVars, detached, cancel_event, lastExc, disk, problems, results, total_cost, retries, queueVars,
                   fatalVars, coordVars, pc, held, ret, snap, faults, rateLimits, attempts,
                   allRate, deqFatal>>

\* _write_summary(args, state): the summary dict ...
MainFinalSnap ==
    /\ main_pc = "final_snap"
    /\ snap' = [snap EXCEPT ![0] = SummaryOf(total_cost, results)]
    /\ main_pc' = "final_write"
    /\ UNCHANGED <<cfgVars, storeVars, inputVars, gateVars, stepVars, supVars, detached, cancel_event, lastExc, disk, problems, results, total_cost, retries, queueVars,
                   fatalVars, coordVars, pc, held, ret, faults, rateLimits, attempts,
                   allRate, deqFatal>>

\* ... summary.json is opened for writing ...
MainFinalOpen ==
    /\ main_pc = "final_write"
    /\ ~SummaryLockHeld
    /\ disk' = Truncated
    /\ main_pc' = "final_flush"
    /\ UNCHANGED <<cfgVars, storeVars, inputVars, gateVars, stepVars, supVars, detached, cancel_event, lastExc, problems, results, total_cost, retries, queueVars,
                   fatalVars, coordVars, pc, held, ret, snap, faults, rateLimits, attempts,
                   allRate, deqFatal>>

\* ... and written; then raise BatchFatalError if the flag is set, else return
MainFinalWrite ==
    /\ main_pc = "final_flush"
    /\ disk' = snap[0]
    /\ snap' = [snap EXCEPT ![0] = NoSnap]
    /\ main_pc' = IF fatal_event THEN "raised" ELSE "returned"
    /\ UNCHANGED <<cfgVars, storeVars, inputVars, gateVars, stepVars, supVars, detached, cancel_event, lastExc, problems, results, total_cost, retries, queueVars,
                   fatalVars, coordVars, pc, held, ret, faults, rateLimits, attempts,
                   allRate, deqFatal>>

\* ------------------------------------------------------------------ Next
Worker(w) ==
    \/ WorkerTop(w) \/ WorkerGet(w) \/ WorkerGetEmpty(w) \/ WorkerEmpty(w)
    \/ WorkerChk(w) \/ PPEnter(w) \/ AgentSucceeds(w) \/ AgentRaises(w)
    \/ SupervisorTimeout(w) \/ PPAddCost(w)
    \/ PPSnap(w) \/ PPOpen(w) \/ PPWrite(w) \/ WorkerRetChk(w) \/ WorkerPut(w)
    \/ WorkerFatal(w) \/ WorkerDrain(w) \/ WorkerFinally(w)

Main == ResolveResume \/ SeedQueue \/ MainJoin \/ MainShutdown \/ MainFinalSnap
        \/ MainFinalOpen \/ MainFinalWrite

Next == Main \/ TimerFires \/ \E w \in Workers : Worker(w)

Spec == Init /\ [][Next]_vars

\* ------------------------------------------- failing summary writes
\* _write_summary raises in process_problem's finally clause (json.dumps or
\* the file system fails): the exception replaces the return value or the
\* BatchFatalError, and worker_loop's `except Exception` clause records it
PPWriteFails(w) ==
    /\ \/ pc[w] = "pp_write" /\ ~SummaryLockHeld
       \/ pc[w] = "pp_flush"
    /\ faults < MaxFaults
    /\ faults' = faults + 1
    /\ snap' = [snap EXCEPT ![w] = NoSnap]
    /\ results' = [SetDefault(results, held[w]) EXCEPT ![held[w]].status = OSErrorExc.type]
    /\ ret' = [ret EXCEPT ![w] = "none"]
    /\ pc' = [pc EXCEPT ![w] = "gen_snap"]
    /\ UNCHANGED <<main_pc, cfgVars, storeVars, inputVars, gateVars, stepVars, supVars, detached, cancel_event, lastExc, disk, problems, total_cost, retries, queueVars,
                   fatalVars, coordVars, held, rateLimits, attempts, allRate, deqFatal>>

\* the clause's own _write_summary(args, state): the summary dict ...
GenSnap(w) ==
    /\ pc[w] = "gen_snap"
    /\ snap' = [snap EXCEPT ![w] = SummaryOf(total_cost, results)]
    /\ pc' = [pc EXCEPT ![w] = "gen_write"]
    /\ UNCHANGED <<main_pc, cfgVars, storeVars, inputVars, gateVars, stepVars, supVars, detached, cancel_event, lastExc, disk, problems, results, total_cost, retries,
                   queueVars, fatalVars, coordVars, held, ret, faults, rateLimits,
                   attempts, allRate, deqFatal>>

\* ... summary.json is opened for writing ...
GenOpen(w) ==
    /\ pc[w] = "gen_write"
    /\ ~SummaryLockHeld
    /\ disk' = Truncated
    /\ pc' = [pc EXCEPT ![w] = "gen_flush"]
    /\ UNCHANGED <<main_pc, cfgVars, storeVars, inputVars, gateVars, stepVars, supVars, detached, cancel_event, lastExc, problems, results, total_cost, retries, queueVars,
                   fatalVars, coordVars, held, ret, snap, faults, rateLimits, attempts,
                   allRate, deqFatal>>

\* ... and written
GenWrite(w) ==
    /\ pc[w] = "gen_flush"
    /\ disk' = snap[w]
    /\ snap' = [snap EXCEPT ![w] = NoSnap]
    /\ pc' = [pc EXCEPT ![w] = AfterTry]
    /\ UNCHANGED <<main_pc, cfgVars, storeVars, inputVars, gateVars, stepVars, supVars, detached, cancel_event, lastExc, problems, results, total_cost, retries, queueVars,
                   fatalVars, coordVars, held, ret, faults, rateLimits, attempts,
                   allRate, deqFatal>>

\* ... or fails again: the exception leaves worker_loop through the finally clause
GenWriteFails(w) ==
    /\ \/ pc[w] = "gen_write" /\ ~SummaryLockHeld
       \/ pc[w] = "gen_flush"
    /\ faults < MaxFaults
    /\ faults' = faults + 1
    /\ snap' = [snap EXCEPT ![w] = NoSnap]
    /\ pc' = [pc EXCEPT ![w] = "fin_exit"]
    /\ UNCHANGED <<main_pc, cfgVars, storeVars, inputVars, gateVars, stepVars, supVars, detached, cancel_event, lastExc, disk, problems, results, total_cost, retries,
                   queueVars, fatalVars, coordVars, held, ret, rateLimits, attempts,
                   allRate, deqFatal>>

WorkerFaults(w) ==
    PPWriteFails(w) \/ GenSnap(w) \/ GenOpen(w) \/ GenWrite(w) \/ GenWriteFails(w)

NextFaults == Next \/ \E w \in Workers : WorkerFaults(w)

\* ------------------------------- RateLimitCoordinator, exercised on its own
\* Threads that call wait_if_paused(cancel_event) and signal_rate_limit on one
\* coordinator, as the agents' steps and process_problem do, and the
\* supervisors that set the cancel events.
runVars == <<main_pc, cfgVars, storeVars, inputVars, stepVars, detached, lastExc, disk, problems, results, total_cost, retries, queueVars,
             fatalVars, pc, held, ret, snap, faults, rateLimits, attempts, allRate, deqFatal>>

\* a caller enters wait_if_paused
WaitCall(w) ==
    /\ gpc[w] = "idle"
    /\ gpc' = [gpc EXCEPT ![w] = "wait"]
    /\ gret' = [gret EXCEPT ![w] = "none"]
    /\ blocked' = [blocked EXCEPT ![w] = FALSE]
    /\ UNCHANGED <<runVars, supVars, cancel_event, coordVars, cancelled, signals, pauses>>

\* mutant: the wait on the event reports success when it times out
ResumeWaitAlways(gate) == TRUE

\* self._resume.wait(timeout=0.2): whether the event is set when the wait ends
ResumeWait(gate) == gate

\* while not self._resume.wait(timeout=0.2): ... ; return True
WaitPoll(w) ==
    /\ gpc[w] = "wait"
    /\ IF ResumeWait(gate_resumed)
       THEN /\ gpc' = [gpc EXCEPT ![w] = "idle"]
            /\ gret' = [gret EXCEPT ![w] = "true"]
            /\ UNCHANGED blocked
       ELSE /\ gpc' = [gpc EXCEPT ![w] = "chk"]
            /\ blocked' = [blocked EXCEPT ![w] = TRUE]
            /\ UNCHANGED gret
    /\ UNCHANGED <<runVars, supVars, cancel_event, coordVars, cancelled, signals, pauses>>

\* if cancel_event is not None and cancel_event.is_set(): return False
WaitCancelChk(w) ==
    /\ gpc[w] = "chk"
    /\ IF cancelled[w]
       THEN /\ gpc' = [gpc EXCEPT ![w] = "idle"]
            /\ gret' = [gret EXCEPT ![w] = "false"]
       ELSE /\ gpc' = [gpc EXCEPT ![w] = "wait"]
            /\ UNCHANGED gret
    /\ UNCHANGED <<runVars, supVars, cancel_event, coordVars, cancelled, blocked, signals, pauses>>

\* _run_agent_with_timeout: cancel_event.set()
SetCancel(w) ==
    /\ ~cancelled[w]
    /\ cancelled' = [cancelled EXCEPT ![w] = TRUE]
    /\ UNCHANGED <<runVars, supVars, cancel_event, coordVars, gpc, gret, blocked, signals, pauses>>

\* a caller that is not waiting calls signal_rate_limit
Signal(w) ==
    /\ gpc[w] = "idle"
    /\ signals < MaxSignals
    /\ LET coord == signal_rate_limit(gate_resumed, timers) IN
          /\ gate_resumed' = coord[1]
          /\ timers' = coord[2]
    /\ signals' = signals + 1
    /\ pauses' = IF gate_resumed THEN pauses + 1 ELSE pauses
    /\ UNCHANGED <<runVars, supVars, cancel_event, gpc, gret, cancelled, blocked>>

Caller(w) == WaitCall(w) \/ WaitPoll(w) \/ WaitCancelChk(w) \/ SetCancel(w) \/ Signal(w)

NextGate == TimerFires \/ \E w \in Workers : Caller(w)

\* the polling loops and the Timer thread keep running
FairnessGate ==
    /\ WF_vars(TimerFires)
    /\ \A w \in Workers : WF_vars(WaitPoll(w) \/ WaitCancelChk(w))

SpecGate == InitUnlimited /\ [][NextGate]_vars /\ FairnessGate

\* ------------------------------------------------- runs left behind
\* mutant: the forecast of a run that ends after its timeout is recorded
TargetRecords(res, t, c) == [res EXCEPT ![t] = [status |-> "submitted", cost |-> c]]

\* _target: what state.results is once the thread of task t's run has ended
\* with a cost of c; the forecast or the exception goes into result_holder or
\* error_holder, which the supervisor that raised no longer reads
Target(res, t, c) == res

\* the thread of a run whose supervisor has raised BatchRunTimeoutError ends:
\* agent.run returns a forecast, or raises (BatchRunTimeoutError at the
\* agent's next step, or anything else); done.set()
DetachedEnds(t) ==
    /\ detached[t] = "running"
    /\ \E o \in {"result", "error"} : detached' = [detached EXCEPT ![t] = o]
    /\ \E c \in Costs : results' = Target(results, t, c)
    /\ UNCHANGED <<main_pc, cfgVars, storeVars, inputVars, gateVars, stepVars, supVars, cancel_event, lastExc, disk,
                   problems, total_cost, retries, queueVars, fatalVars, coordVars, pc, held, ret,
                   snap, faults, rateLimits, attempts, allRate, deqFatal>>

NextDetached == Next \/ \E t \in Tasks : DetachedEnds(t)

SpecDetached == Init /\ [][NextDetached]_vars

\* ------------------------- the agents' step methods, exercised on their own
\* Each caller is the agent of one run: BatchForecastAgent.step, or the step
\* that EvalBatchAgentWrapper._patch_step puts around a custom agent's step,
\* is called again and again, while the run's supervisor may set its cancel
\* event and the coordinator's gate is paused and resumed.
AgentKinds == {"batch", "wrapped"}

stepFrame == <<main_pc, cfgVars, storeVars, inputVars, lastExc, disk, problems, results, total_cost,
               retries, queueVars, fatalVars, pc, held, ret, snap, faults, rateLimits, attempts,
               allRate, deqFatal, supVars, cancel_event, detached>>

\* step() is called
StepCall(w) ==
    /\ step_pc[w] \in {"idle", "returned", "raised"}
    /\ gpc[w] = "idle"
    /\ \E k \in AgentKinds : agent_kind' = [agent_kind EXCEPT ![w] = k]
    /\ step_pc' = [step_pc EXCEPT ![w] = "guard"]
    /\ stepped' = [stepped EXCEPT ![w] = FALSE]
    /\ UNCHANGED <<stepFrame, coordVars, gateVars>>

\* if cancel_event.is_set(): raise BatchRunTimeoutError; else
\* self._coordinator.wait_if_paused(cancel_event=self._cancel_event) is entered
StepGuard(w) ==
    /\ step_pc[w] = "guard"
    /\ IF cancelled[w]
       THEN /\ step_pc' = [step_pc EXCEPT ![w] = "raised"]
            /\ UNCHANGED <<gpc, gret, blocked>>
       ELSE /\ step_pc' = [step_pc EXCEPT ![w] = "wait"]
            /\ gpc' = [gpc EXCEPT ![w] = "wait"]
            /\ gret' = [gret EXCEPT ![w] = "none"]
            /\ blocked' = [blocked EXCEPT ![w] = FALSE]
    /\ UNCHANGED <<stepFrame, coordVars, agent_kind, stepped, cancelled, signals, pauses>>

\* mutant: no step looks at the cancel event again once the wait has returned
RecheckNever(kind) == FALSE

\* whether the step tests the cancel event again between wait_if_paused and
\* the underlying step: BatchForecastAgent.step does, _pre_step_guard does not
RecheckAfterWait(kind) == kind = "batch"

\* wait_if_paused has returned: if not resumed: raise BatchRunTimeoutError
StepWaitReturn(w) ==
    /\ step_pc[w] = "wait"
    /\ gpc[w] = "idle"
    /\ step_pc' = [step_pc EXCEPT ![w] =
                      IF gret[w] = "false" THEN "raised"
                      ELSE IF stepped[w] THEN "returned"
                      ELSE IF RecheckAfterWait(agent_kind[w]) THEN "recheck"
                      ELSE "under"]
    /\ UNCHANGED <<stepFrame, coordVars, gateVars, agent_kind, stepped>>

\* BatchForecastAgent.step: the second test of the cancel event, then super().step()
StepRecheck(w) ==
    /\ step_pc[w] = "recheck"
    /\ step_pc' = [step_pc EXCEPT ![w] = IF cancelled[w] THEN "raised" ELSE "under"]
    /\ UNCHANGED <<stepFrame, coordVars, gateVars, agent_kind, stepped>>

\* res = super().step() / original_step(*args, **kwargs): the model is
\* queried and the actions are executed
StepUnder(w) ==
    /\ step_pc[w] = "under"
    /\ stepped' = [stepped EXCEPT ![w] = TRUE]
    /\ step_pc' = [step_pc EXCEPT ![w] = "post"]
    /\ UNCHANGED <<stepFrame, coordVars, gateVars, agent_kind>>

\* after the underlying step: BatchForecastAgent.step tests the cancel event
\* once more and returns res; the wrapper calls _pre_step_guard again
StepPost(w) ==
    /\ step_pc[w] = "post"
    /\ step_pc' = [step_pc EXCEPT ![w] =
                      IF agent_kind[w] = "wrapped" THEN "guard"
                      ELSE IF cancelled[w] THEN "raised" ELSE "returned"]
    /\ UNCHANGED <<stepFrame, coordVars, gateVars, agent_kind, stepped>>

Stepper(w) ==
    \/ StepCall(w) \/ StepGuard(w) \/ WaitPoll(w) \/ WaitCancelChk(w) \/ StepWaitReturn(w)
    \/ StepRecheck(w) \/ StepUnder(w) \/ StepPost(w) \/ SetCancel(w) \/ Signal(w)

NextStep == TimerFires \/ \E w \in Workers : Stepper(w)

SpecStep == InitUnlimited /\ [][NextStep]_vars

\* ------------------------------ _run_agent_with_timeout, exercised on its own
\* Each caller runs an agent under the supervisor as process_problem does,
\* with the cancel_event it made for the run. holder is "result" when
\* result_holder has the forecast, "error" when error_holder has the run's
\* exception, "empty" when both lists are empty.
InitSupervisor ==
    /\ max_cost = 0
    /\ workers = NumWorkers
    /\ timeout_seconds \in {-1, 0, DEFAULT_TIMEOUT_SECONDS}
    /\ resume = FALSE
    /\ disk = NoFile
    /\ throttle = {}
    /\ rateLimits = 0
    /\ StoreIdle
    /\ InputIdle
    /\ InitRun

\* how agent.run can end: with a forecast, with an Exception, or with a
\* BaseException that `except Exception` does not catch
RunOutcomes == {"result", "error", "exit"}

\* cancel_event = threading.Event(); _run_agent_with_timeout(...) is entered
SupCall(w) ==
    /\ spc[w] = "idle"
    /\ rpc[w] \in {"idle", "ended"}
    /\ cancel_event' = [cancel_event EXCEPT ![w] = FALSE]
    /\ done_event' = [done_event EXCEPT ![w] = FALSE]
    /\ holder' = [holder EXCEPT ![w] = "empty"]
    /\ sret' = [sret EXCEPT ![w] = "none"]
    /\ rpc' = [rpc EXCEPT ![w] = "running"]
    /\ spc' = [spc EXCEPT ![w] = IF timeout_seconds <= 0 THEN "sync" ELSE "wait"]
    /\ UNCHANGED <<runVars, gateVars, coordVars>>

\* if timeout_seconds <= 0: return agent.run(...)
SyncFinish(w) ==
    /\ spc[w] = "sync"
    /\ \E out \in RunOutcomes : sret' = [sret EXCEPT ![w] = out]
    /\ rpc' = [rpc EXCEPT ![w] = "ended"]
    /\ spc' = [spc EXCEPT ![w] = "idle"]
    /\ UNCHANGED <<runVars, gateVars, coordVars, cancel_event, done_event, holder>>

\* _target: agent.run(...) ends and its payload is stored
RunFinish(w) ==
    /\ rpc[w] = "running"
    /\ spc[w] # "sync"
    /\ \E out \in RunOutcomes :
          holder' = [holder EXCEPT ![w] = IF out = "exit" THEN "empty" ELSE out]
    /\ rpc' = [rpc EXCEPT ![w] = "finally"]
    /\ UNCHANGED <<runVars, gateVars, coordVars, cancel_event, spc, done_event, sret>>

\* BatchForecastAgent.step finds the cancel event set and raises
\* BatchRunTimeoutError, which _target stores like any other exception
RunCancelled(w) ==
    /\ rpc[w] = "running"
    /\ spc[w] # "sync"
    /\ cancel_event[w]
    /\ holder' = [holder EXCEPT ![w] = "error"]
    /\ rpc' = [rpc EXCEPT ![w] = "finally"]
    /\ UNCHANGED <<runVars, gateVars, coordVars, cancel_event, spc, done_event, sret>>

\* _target: finally: done.set()
RunSetDone(w) ==
    /\ rpc[w] = "finally"
    /\ done_event' = [done_event EXCEPT ![w] = TRUE]
    /\ rpc' = [rpc EXCEPT ![w] = "ended"]
    /\ UNCHANGED <<runVars, gateVars, coordVars, cancel_event, spc, holder, sret>>

\* mutant: the wait reports a timeout whatever the event's state
DoneWaitMissed(d) == FALSE

\* done.wait(timeout=timeout_seconds): whether the event is set when the
\* wait ends
DoneWait(d) == d

\* if not done.wait(timeout=timeout_seconds): ...
SupWait(w) ==
    /\ spc[w] = "wait"
    /\ spc' = [spc EXCEPT ![w] = IF DoneWait(done_event[w]) THEN "check" ELSE "expired"]
    /\ UNCHANGED <<runVars, gateVars, coordVars, cancel_event, rpc, done_event, holder, sret>>

\* cancel_event.set()
SupCancel(w) ==
    /\ spc[w] = "expired"
    /\ cancel_event' = [cancel_event EXCEPT ![w] = TRUE]
    /\ spc' = [spc EXCEPT ![w] = "raise"]
    /\ UNCHANGED <<runVars, gateVars, coordVars, rpc, done_event, holder, sret>>

\* raise BatchRunTimeoutError(...)
SupRaise(w) ==
    /\ spc[w] = "raise"
    /\ sret' = [sret EXCEPT ![w] = "BatchRunTimeoutError"]
    /\ spc' = [spc EXCEPT ![w] = "idle"]
    /\ UNCHANGED <<runVars, gateVars, coordVars, cancel_event, rpc, done_event, holder>>

\* if error_holder: raise error_holder[0]; if not result_holder: raise
\* RuntimeError(...); return result_holder[0]
SupOutcome(h) ==
    CASE h = "error" -> "error"
      [] h = "empty" -> "RuntimeError"
      [] OTHER -> "result"

SupCheck(w) ==
    /\ spc[w] = "check"
    /\ sret' = [sret EXCEPT ![w] = SupOutcome(holder[w])]
    /\ spc' = [spc EXCEPT ![w] = "idle"]
    /\ UNCHANGED <<runVars, gateVars, coordVars, cancel_event, rpc, done_event, holder>>

Supervised(w) ==
    \/ SupCall(w) \/ SyncFinish(w) \/ RunFinish(w) \/ RunCancelled(w) \/ RunSetDone(w)
    \/ SupWait(w) \/ SupCancel(w) \/ SupRaise(w) \/ SupCheck(w)

NextSupervisor == \E w \in Workers : Supervised(w)

SpecSupervisor == InitSupervisor /\ [][NextSupervisor]_vars

\* ------------------------------------ the summary store, exercised on its own
\* load_existing_summary applied to the files a caller can point it at, and
\* _write_summary followed by load_existing_summary on orchestrator states.
RunIds == {"r1", "r2"}
\* the run dicts of the files: with and without run_id, an empty and a
\* numeric run_id, with and without status, a cost that is not a dict
RunDicts ==
    { JObj([run_id |-> i, status |-> s, cost |-> c]) :
        i \in {Absent, JStr(""), JNum(7)} \cup { JStr(id) : id \in RunIds },
        s \in {Absent, JStr("submitted")},
        c \in {Absent, JNum(3), JObj([total |-> JNum(AgentCost)])} }
Items == {JStr("x")} \cup RunDicts
RunLists == UNION { [1..n -> Items] : n \in 0..MaxRuns }
Files ==
    {Missing, Garbage, JList(<<>>), JNum(1)}
    \cup { JObj([runs |-> r, total_cost |-> c]) :
             r \in {Absent, JNull, JStr("x"), JObj([a |-> JNum(1)])}
                   \cup { JList(l) : l \in RunLists },
             c \in {Absent, JNull, JNum(0), JNum(BudgetLimit)} }

\* the RunResults process_problem can leave for a run_id
RunResults(id) ==
    { [run_id |-> id, title |-> "title", status |-> s,
       cost |-> [model |-> c, search |-> 0, total |-> c],
       submission |-> sub, evaluation |-> ev, error |-> err, output_dir |-> "runs"] :
        s \in {"pending", "submitted", "RuntimeError"}, c \in Costs,
        sub \in {JNull, JObj([Yes |-> JNum(1)])},
        ev \in {JNull, JObj([brier |-> JNum(0)])},
        err \in {JNull, JStr("boom")} }
States ==
    UNION { { res \in [ids -> UNION { RunResults(id) : id \in ids }] :
                \A id \in ids : res[id].run_id = id } : ids \in SUBSET RunIds }

InitStore ==
    /\ \/ /\ summary_file \in Files
          /\ st_results = EmptyMap
          /\ st_total_cost = 0
       \/ /\ summary_file = Missing
          /\ st_results \in States
          /\ st_total_cost \in 0..(2 * AgentCost)
    /\ load_ret = NotLoaded
    /\ store_pc = "start"
    /\ max_cost = 0
    /\ workers = NumWorkers
    /\ timeout_seconds = DEFAULT_TIMEOUT_SECONDS
    /\ resume = FALSE
    /\ disk = NoFile
    /\ throttle = {}
    /\ rateLimits = 0
    /\ InputIdle
    /\ InitRun

orchVars == <<main_pc, cfgVars, inputVars, lastExc, disk, problems, results, total_cost, retries, queueVars,
              fatalVars, pc, held, ret, snap, faults, rateLimits, attempts, allRate, deqFatal,
              gateVars, stepVars, supVars, detached, cancel_event, coordVars>>

\* load_existing_summary(summary_path)
StoreLoad ==
    /\ store_pc \in {"start", "written"}
    /\ load_ret' = load_existing_summary(summary_file)
    /\ store_pc' = IF store_pc = "start" THEN "loaded" ELSE "reloaded"
    /\ UNCHANGED <<orchVars, summary_file, st_results, st_total_cost>>

\* _write_summary(args, state)
StoreWrite ==
    /\ store_pc = "start"
    /\ summary_file' = WriteSummary(st_results, st_total_cost)
    /\ store_pc' = "written"
    /\ UNCHANGED <<orchVars, st_results, st_total_cost, load_ret>>

NextStore == StoreLoad \/ StoreWrite

SpecStore == InitStore /\ [][NextStore]_vars

\* --------------------------------------- load_problems, exercised on its own
Lines ==
    {BlankLine, BadJson, BadSchema}
    \cup { Row(id) : id \in {NoneId, "", "task_0", "task_1", "x"} }
InputFiles == UNION { [1..n -> Lines] : n \in 0..MaxLines }

InitInput ==
    /\ jsonl \in InputFiles
    /\ lp_ret = ProblemsRaised("not called")
    /\ lp_pc = "start"
    /\ max_cost = 0
    /\ workers = NumWorkers
    /\ timeout_seconds = DEFAULT_TIMEOUT_SECONDS
    /\ resume = FALSE
    /\ disk = NoFile
    /\ throttle = {}
    /\ rateLimits = 0
    /\ StoreIdle
    /\ InitRun

\* problems = load_problems(resolved_input, offset=offset)
LoadProblems ==
    /\ lp_pc = "start"
    /\ lp_ret' = load_problems(jsonl)
    /\ lp_pc' = "loaded"
    /\ UNCHANGED <<main_pc, cfgVars, storeVars, lastExc, disk, problems, results, total_cost,
                   retries, queueVars, fatalVars, pc, held, ret, snap, faults, rateLimits,
                   attempts, allRate, deqFatal, gateVars, stepVars, supVars, detached, cancel_event, coordVars,
                   jsonl>>

SpecInput == InitInput /\ [][LoadProblems]_vars

\* every thread that can take a step eventually takes one: the workers and the
\* caller are threads of the interpreter, the auto-resume is a Timer thread
Fairness ==
    /\ WF_vars(Main)
    /\ WF_vars(TimerFires)
    /\ \A w \in Workers : WF_vars(Worker(w))

FairSpec == InitUnlimited /\ [][Next]_vars /\ Fairness

\* a fresh output directory, runs that are supervised or not, and agents whose
\* run may never end
InitHang ==
    /\ max_cost = 0
    /\ workers = NumWorkers
    /\ timeout_seconds \in {0, DEFAULT_TIMEOUT_SECONDS}
    /\ resume = FALSE
    /\ disk = NoFile
    /\ throttle = {}
    /\ rateLimits = 0
    /\ StoreIdle
    /\ InputIdle
    /\ InitRun

\* the steps of a worker that are the orchestrator's own code: everything
\* but the end of agent.run, which is the agent's to reach
WorkerOwn(w) ==
    \/ WorkerTop(w) \/ WorkerGet(w) \/ WorkerGetEmpty(w) \/ WorkerEmpty(w)
    \/ WorkerChk(w) \/ PPEnter(w) \/ SupervisorTimeout(w) \/ PPAddCost(w)
    \/ PPSnap(w) \/ PPOpen(w) \/ PPWrite(w) \/ WorkerRetChk(w) \/ WorkerPut(w)
    \/ WorkerFatal(w) \/ WorkerDrain(w) \/ WorkerFinally(w)

\* every thread of the orchestrator that can take a step eventually takes
\* one, the supervisor's timed wait included; an agent's run need not end
FairnessHang ==
    /\ WF_vars(Main)
    /\ WF_vars(TimerFires)
    /\ \A w \in Workers : WF_vars(WorkerOwn(w))

SpecHang == InitHang /\ [][Next]_vars /\ FairnessHang

\* a fresh output directory, and summary writes that can fail
SpecFaults == Init /\ [][NextFaults]_vars

SpecRetry == InitRetry /\ [][Next]_vars

SpecResume == InitResume /\ [][Next]_vars

\* ======================================================== properties
InProcessProblem(w) ==
    pc[w] \in {"pp_enter", "pp_run", "pp_addcost", "pp_snap", "pp_write", "pp_flush"}

\* C1 (fatal short-circuit): a task that was still queued and had never been
\* attempted when the fatal flag was set is never passed to process_problem,
\* and a worker that takes a task from the queue while the flag is set leaves
\* through the finally clause without calling process_problem.
C1_FatalShortCircuit ==
    /\ \A t \in unstartedAtFatal : attempts[t] = 0
    /\ \A w \in Workers : deqFatal[w] => pc[w] \in {"chk", "fin_exit"}

\* a worker has taken a never-attempted task after the flag was set and is
\* on its way out without having executed it
C1_Witness ==
    \E w \in Workers :
        /\ fatal_event /\ deqFatal[w] /\ pc[w] = "fin_exit"
        /\ held[w] \in unstartedAtFatal /\ attempts[held[w]] = 0

\* C2 (fatal termination), as the state it excludes: the flag is set, every
\* worker has returned, and run_eval still blocks in queue.join() on a queue
\* whose unfinished count can no longer reach zero.
C2_NoStuckJoin ==
    ~ ( /\ fatal_event
        /\ main_pc = "join"
        /\ \A w \in Pool : pc[w] = "exit"
        /\ unfinished > 0 )

\* C3 (completeness): when run_eval returns normally, every input problem has
\* a RunResult and its status is terminal (neither pending nor transient).
C3_Completeness ==
    main_pc = "returned" =>
        \A t \in Range(problems) :
            /\ results[t] # NoResult
            /\ IsTerminal(results[t].status)

\* run_eval has returned after a run in which a task was retried and another
\* one failed or timed out
C3_Witness ==
    /\ main_pc = "returned"
    /\ \E t \in Tasks : retries[t] > 0 /\ IsTerminal(results[t].status)
    /\ \E t \in Tasks : results[t].status \in {"BatchRunTimeoutError", "RuntimeError"}

\* C4 (termination without fatal error): unless an attempt is classified
\* fatal, run_eval eventually returns with every worker gone and the queue
\* empty, and every put of a task (the seeding and each re-enqueue for a
\* retry) has been followed by a call of process_problem for it.
C4_Termination ==
    <>( \/ fatal_event
        \/ /\ main_pc = "returned"
           /\ queue = <<>>
           /\ \A w \in Pool : pc[w] = "exit"
           /\ \A t \in Range(problems) : attempts[t] = retries[t] + 1 )

\* a task is back in the queue for a retry while another worker has already
\* returned on an empty queue
C4_Witness ==
    /\ ~fatal_event
    /\ \E t \in Range(queue) : retries[t] > 0
    /\ \E w \in Workers : pc[w] = "exit"

\* C5 (retry bound): a task whose attempts have all been classified
\* rate-limited (never auth) is attempted at most MAX_RETRIES + 1 times; each
\* of the first MAX_RETRIES attempts leaves process_problem with done = False
\* and retries equal to the attempt's number, the next one leaves with
\* done = True, a permanent failure status and retries = MAX_RETRIES; and when
\* run_eval returns the task has had exactly MAX_RETRIES + 1 attempts.
C5_RetryBound ==
    \A t \in Tasks : allRate[t] =>
        /\ attempts[t] <= MAX_RETRIES + 1
        /\ \A w \in Workers : (held[w] = t /\ pc[w] \in {"pp_snap", "pp_write", "pp_flush"}) =>
              /\ attempts[t] <= MAX_RETRIES =>
                    ret[w] = "false" /\ retries[t] = attempts[t]
              /\ attempts[t] = MAX_RETRIES + 1 =>
                    /\ ret[w] = "true" /\ retries[t] = MAX_RETRIES
                    /\ IsTerminal(results[t].status) /\ results[t].status # "auth_error"
        /\ main_pc = "returned" /\ t \in Range(problems) =>
              /\ attempts[t] = MAX_RETRIES + 1 /\ retries[t] = MAX_RETRIES
              /\ IsTerminal(results[t].status)

\* run_eval has returned and a task went through four rate-limited attempts
C5_Witness ==
    /\ main_pc = "returned"
    /\ \E t \in Tasks : allRate[t] /\ attempts[t] = MAX_RETRIES + 1 /\ retries[t] = MAX_RETRIES

\* C6 (retries bounded): retries stays within 0..MAX_RETRIES, and a step
\* changes a task's retries only by +1, in the except clause of an attempt of
\* that task that leaves process_problem with done = False.
C6_RetriesBounded ==
    /\ [](\A t \in Tasks : retries[t] \in 0..MAX_RETRIES)
    /\ [][\A t \in Tasks : retries'[t] # retries[t] =>
              /\ retries'[t] = retries[t] + 1
              /\ \E w \in Workers :
                    /\ held[w] = t /\ pc[w] = "pp_run"
                    /\ pc'[w] = "pp_snap" /\ ret'[w] = "false"]_vars

\* a task at MAX_RETRIES was rate-limited once more and failed for good
C6_Witness ==
    \E t \in Tasks :
        /\ retries[t] = MAX_RETRIES /\ attempts[t] = MAX_RETRIES + 1
        /\ results[t].status = "SearchRateLimitError"

\* C7 (terminal statuses are final): no step changes a terminal status, and
\* no step starts another attempt of a task whose status is terminal.
C7_TerminalFinal ==
    [][\A t \in Tasks : IsTerminal(results[t].status) =>
            /\ results'[t].status = results[t].status
            /\ attempts'[t] = attempts[t]]_vars

\* what the CLI found in summary.json, as load_existing_summary returns it
PriorResultsOf(t) == LoadedResults(prior)[t]
Resuming == resume /\ prior.exists

\* C8 (resume idempotence): a task recorded as completed in the summary is
\* never seeded, held or passed to process_problem; every task that is
\* executed is one the summary does not record as completed; and run_eval
\* starts from the loaded results and total cost.
C8_ResumeIdempotence ==
    Resuming =>
        /\ \A t \in Tasks : IsTerminal(PriorResultsOf(t).status) =>
              /\ attempts[t] = 0
              /\ t \notin Range(problems) /\ t \notin Range(queue)
              /\ \A w \in Workers : held[w] # t
        /\ main_pc = "seed" =>
              /\ results = [t \in Tasks |-> PriorResultsOf(t)]
              /\ total_cost = prior.total_cost

\* a resumed run has returned: one task was completed before, another ran now
C8_Witness ==
    /\ Resuming /\ main_pc = "returned"
    /\ \E t \in Tasks : IsTerminal(PriorResultsOf(t).status)
    /\ \E t \in Tasks : attempts[t] > 0

\* C9 (resume seeding is by terminal status): once the resume state is
\* resolved, the problems to run are exactly the input tasks that the summary
\* does not record with a terminal status; a task recorded as pending is run.
C9_SeedByTerminalStatus ==
    (Resuming /\ main_pc \notin {"resolve", "exit1"}) =>
        Range(problems) = { t \in Tasks : ~IsTerminal(PriorResultsOf(t).status) }

\* C10 (resume validation): a summary with a run_id that is not in the input
\* ends the CLI in the validation error: no queue, no worker, no attempt, and
\* summary.json as it was.
C10_ResumeValidation ==
    (Resuming /\ ForeignId \in DOMAIN prior.runs) =>
        /\ main_pc \in {"resolve", "exit1"}
        /\ queue = <<>> /\ unfinished = 0
        /\ \A w \in Workers : pc[w] = "idle"
        /\ \A t \in Tasks : attempts[t] = 0
        /\ disk = prior

\* the CLI has exited on a summary that names a foreign run_id next to a
\* run_id of the input
C10_Witness ==
    /\ main_pc = "exit1"
    /\ ForeignId \in DOMAIN prior.runs
    /\ \E t \in Tasks : t \in DOMAIN prior.runs

\* C11 (budget skip), by the order in which tasks start: in a run whose
\* tasks all either succeed at cost AgentCost or are skipped, the tasks
\* that start once the tasks started before them are worth max_cost or more
\* are skipped, so that the successful ones are worth less than
\* max_cost + AgentCost.
C11_SkipByStartOrder ==
    ( /\ main_pc = "returned" /\ max_cost > 0
      /\ \A t \in Tasks : \/ results[t].status = "skipped_cost_limit"
                          \/ results[t] = [status |-> "submitted", cost |-> AgentCost] ) =>
        Cardinality({ t \in Tasks : results[t].status = "submitted" }) * AgentCost
            < max_cost + AgentCost

\* C11, by the cost committed when a task starts: an attempt that begins when
\* max_cost > 0 and total_cost >= max_cost marks the task skipped_cost_limit
\* and goes straight to the finally clause with done = True, no dependency
\* and no agent being built; an attempt passes the gate only while the
\* committed cost is below max_cost (or there is no budget); a skipped
\* task is never in the part of process_problem that builds and runs; and
\* with one worker the skipping follows the order in which tasks start.
C11_BudgetSkip ==
    /\ []( ( /\ main_pc = "returned" /\ max_cost > 0 /\ workers = 1
             /\ \A t \in Tasks :
                   \/ results[t].status = "skipped_cost_limit"
                   \/ results[t] = [status |-> "submitted", cost |-> AgentCost] ) =>
               Cardinality({ t \in Tasks : results[t].status = "submitted" }) * AgentCost
                   < max_cost + AgentCost )
    /\ [](\A w \in Workers :
            (InProcessProblem(w) /\ pc[w] # "pp_enter"
             /\ results[held[w]].status = "skipped_cost_limit") =>
                /\ pc[w] \in {"pp_snap", "pp_write", "pp_flush"} /\ ret[w] = "true"
                /\ max_cost > 0 /\ total_cost >= max_cost)
    /\ [][\A w \in Workers : (pc[w] = "pp_enter" /\ pc'[w] # "pp_enter") =>
              IF max_cost > 0 /\ total_cost >= max_cost
              THEN /\ results'[held[w]].status = "skipped_cost_limit"
                   /\ ret'[w] = "true" /\ pc'[w] = "pp_snap"
                   /\ total_cost' = total_cost
              ELSE /\ pc'[w] = "pp_run"
                   /\ results'[held[w]].status # "skipped_cost_limit"]_vars

\* a task that starts after another one's cost has used up the budget is on
\* its way out of its first attempt, skipped
C11_Witness ==
    \E w \in Workers :
        /\ pc[w] = "pp_snap" /\ results[held[w]].status = "skipped_cost_limit"
        /\ attempts[held[w]] = 1
        /\ \E u \in Tasks : results[u].status = "submitted" /\ results[u].cost >= max_cost

\* C12 (budget overshoot bound): with a budget, total_cost stays below
\* max_cost + workers * AgentCost, each successful task costing at most
\* AgentCost.
C12_OvershootBound ==
    max_cost > 0 => total_cost < max_cost + workers * AgentCost

\* several workers passed the gate before any of them committed, and the
\* budget is overshot by all but one of them
C12_Witness ==
    /\ max_cost > 0 /\ workers > 1
    /\ total_cost > max_cost
    /\ total_cost = max_cost - 1 + workers * AgentCost

\* the document's total_cost is the sum of the costs of its runs
DocConsistent(doc) == doc.total_cost = SumCost(doc.runs, DOMAIN doc.runs)

\* the tasks this run or the run it resumes has attempted
Attempted == { t \in Tasks : attempts[t] > 0 \/ (Resuming /\ PriorResultsOf(t) # NoResult) }

\* C13 (summary consistency at quiescence): once run_eval has finished,
\* summary.json exists, its total_cost is the sum of the costs of its runs,
\* and its runs are exactly the tasks attempted, one entry each.
C13_QuiescentSummary ==
    main_pc \in {"returned", "raised"} =>
        /\ disk.exists
        /\ DocConsistent(disk)
        /\ DOMAIN disk.runs = Attempted
        /\ disk = SummaryOf(total_cost, results)

\* a resumed run has finished: it started from a summary with a cost and
\* added the cost of a task of its own
C13_Witness ==
    /\ main_pc = "returned" /\ Resuming
    /\ prior.total_cost > 0
    /\ disk.total_cost > prior.total_cost
    /\ \A t \in Tasks : IsTerminal(results[t].status)

\* C14 (the summary on disk is always a consistent snapshot): whenever
\* summary.json exists in a run started from an empty directory, its
\* total_cost is the sum of the costs of its runs.
C14_DiskConsistent ==
    disk.exists => DocConsistent(disk)

\* thread w (0 = the caller of run_eval) enters write_text with its summary dict
StartsWrite(w) ==
    IF w = 0 THEN main_pc # "final_flush" /\ main_pc' = "final_flush"
    ELSE pc[w] \notin {"pp_flush", "gen_flush"} /\ pc'[w] \in {"pp_flush", "gen_flush"}

\* C15 (summary writes are linearized): once summary.json records a task
\* with a terminal status, no write replaces that document with one in which
\* the task is missing or not terminal.
C15_WritesLinearized ==
    [][\A w \in Workers \cup {0} : \A t \in Tasks :
          (StartsWrite(w) /\ disk.exists /\ disk.whole
           /\ t \in DOMAIN disk.runs /\ IsTerminal(disk.runs[t].status)) =>
              /\ t \in DOMAIN snap[w].runs
              /\ IsTerminal(snap[w].runs[t].status)]_vars

\* C16 (summary rewrites are atomic): at every step summary.json holds a
\* complete document, the previous one or the new one.
C16_AtomicRewrite ==
    disk.exists => disk.whole

\* C17 (the fatal flag is write-once): the flag is never cleared, the
\* message is stored in the step that sets the flag and names the run of
\* the worker that sets it, and no later step changes it.
C17_FatalWriteOnce ==
    /\ [](fatal_event <=> fatal_error # NoTask)
    /\ [][/\ fatal_event => (fatal_event' /\ fatal_error' = fatal_error)
          /\ (~fatal_event /\ fatal_event') =>
                \E w \in Workers : pc[w] = "fatal" /\ pc'[w] = "drain"
                                    /\ fatal_error' = held[w]]_vars

\* a second worker has gone through the fatal clause with an auth error of
\* its own, and the message is still the first one's
C17_Witness ==
    /\ fatal_event
    /\ \E w \in Workers :
          /\ pc[w] = "drain" /\ held[w] # fatal_error
          /\ results[held[w]].status = "auth_error"

\* C18 (outcome of the top-level call): run_eval returns the results map
\* only with the flag unset, raises BatchFatalError only with the flag set and
\* with the retained message, in both cases after a final flush that leaves
\* the final state (the auth_error entry included) in summary.json; and once
\* the flag is set the call does raise.
C18_Outcome ==
    /\ [](main_pc = "returned" =>
            /\ ~fatal_event
            /\ disk = SummaryOf(total_cost, results))
    /\ [](main_pc = "raised" =>
            /\ fatal_event /\ fatal_error # NoTask
            /\ disk = SummaryOf(total_cost, results)
            /\ disk.runs[fatal_error].status = "auth_error")
    /\ [](fatal_event => <>(main_pc = "raised"))

\* C19 (signal_rate_limit is a no-op while the gate is paused): a signal made
\* while the gate is paused changes neither the gate nor the pending
\* auto-resume; a signal made while the gate is resumed pauses it and
\* schedules one auto-resume; so at most one auto-resume is ever pending,
\* exactly while the gate is paused.
C19_SignalNoOpWhilePaused ==
    /\ [](timers <= 1 /\ (gate_resumed <=> timers = 0))
    /\ [][signals' # signals =>
              IF gate_resumed
              THEN ~gate_resumed' /\ timers' = timers + 1
              ELSE gate_resumed' = gate_resumed /\ timers' = timers]_vars

\* a signal has been made while the gate was paused by an earlier one, and
\* the auto-resume of the earlier one is still the only one pending
C19_Witness ==
    /\ signals = 2 /\ pauses = 1
    /\ ~gate_resumed /\ timers = 1

\* caller w is inside wait_if_paused
Waiting(w) == gpc[w] \in {"wait", "chk"}

\* C20 (wait_if_paused): a call returns true only in a step that finds the
\* gate resumed; it returns false only after a poll that found the gate
\* paused, in a step that finds the caller's cancel event set; a caller whose
\* cancel event is not set does not leave the call while the gate is paused;
\* and if the gate stays resumed, every caller inside the call returns.
C20_WaitIfPaused ==
    /\ [][\A w \in Workers :
            /\ (gret'[w] # gret[w] /\ gret'[w] = "true") => (gate_resumed /\ gpc[w] = "wait")
            /\ (gret'[w] # gret[w] /\ gret'[w] = "false") =>
                    (cancelled[w] /\ gpc[w] = "chk" /\ blocked[w])
            /\ (gpc[w] # "chk" /\ gpc'[w] = "chk") => ~gate_resumed
            /\ (Waiting(w) /\ ~Waiting(w)') =>
                    /\ gret'[w] \in {"true", "false"}
                    /\ gate_resumed \/ cancelled[w]]_vars
    /\ \A w \in Workers : <>[]gate_resumed => [](Waiting(w) => <>~Waiting(w))

\* two callers were blocked by the one pause there has been, and both have
\* returned true after its auto-resume
C20_Witness ==
    /\ pauses = 1 /\ gate_resumed
    /\ \A w \in Workers : gret[w] = "true" /\ blocked[w] /\ ~cancelled[w]

\* C21 (classification priority): an attempt whose exception matches the
\* auth pattern is classified auth_error and leaves process_problem by the
\* fatal error, without a retry being counted, whether or not the exception
\* also matches the rate-limit pattern.
C21_AuthFirst ==
    /\ [](\A w \in Workers :
            (pc[w] \in {"pp_snap", "pp_write", "pp_flush"} /\ _is_auth_error(lastExc[held[w]])) =>
                /\ ret[w] = "fatal"
                /\ results[held[w]].status = "auth_error")
    /\ [][\A t \in Tasks :
            (lastExc'[t] # lastExc[t] /\ _is_auth_error(lastExc'[t])) =>
                retries'[t] = retries[t]]_vars

\* f"rate_limited (retry {problem.retries})", the text handed to the progress display
rate_limited(n) ==
    CASE n = 1 -> "rate_limited (retry 1)"
      [] n = 2 -> "rate_limited (retry 2)"
      [] n = 3 -> "rate_limited (retry 3)"
      [] OTHER -> "rate_limited"

\* C22 (a retried attempt is recorded): an attempt that leaves
\* process_problem with done = False has counted its retry and has set the
\* status of the task's RunResult to rate_limited(retry = retries), which is
\* what the summary flushed at the end of the attempt shows.
C22_RetryRecorded ==
    \A w \in Workers :
        (pc[w] \in {"pp_snap", "pp_write", "pp_flush"} /\ ret[w] = "false") =>
            /\ retries[held[w]] \in 1..MAX_RETRIES
            /\ results[held[w]].status = rate_limited(retries[held[w]])
            /\ pc[w] # "pp_snap" => snap[w].runs[held[w]].status = rate_limited(retries[held[w]])

\* C23 (a timeout is permanent for its task only): the attempt that times
\* out leaves retries, the fatal flag and the rate-limit gate as they were
\* and returns done = True; the task is never queued or attempted again; and
\* its worker goes on with the loop.
C23_TimeoutPermanent ==
    /\ [](\A t \in Tasks : lastExc[t] = TimeoutExc =>
            /\ t \notin Range(queue)
            /\ \A w \in Workers : held[w] = t => pc[w] \notin {"ret_chk", "put"} \/ ret[w] = "true")
    /\ [][\A t \in Tasks :
            /\ (lastExc[t] # TimeoutExc /\ lastExc'[t] = TimeoutExc) =>
                  /\ retries' = retries
                  /\ UNCHANGED <<fatal_event, fatal_error, gate_resumed, timers, queue>>
            /\ lastExc[t] = TimeoutExc =>
                  /\ lastExc'[t] = TimeoutExc
                  /\ attempts'[t] = attempts[t] /\ retries'[t] = retries[t]]_vars

\* a single worker has had its first task time out and has gone on to
\* complete the next one
C23_Witness ==
    /\ workers = 1 /\ ~fatal_event
    /\ lastExc[InputProblems[1]] = TimeoutExc
    /\ \E u \in Tasks : u # InputProblems[1] /\ results[u].status = "submitted"

\* C24 (the status of a timed-out task is `timeout`): once process_problem
\* has handled the supervisor's timeout exception for a task, the task's
\* RunResult has status `timeout` in the results map and in the snapshot
\* that the finally clause flushes as the summary.
C24_TimeoutStatus ==
    \A w \in Workers :
        (pc[w] \in {"pp_snap", "pp_write", "pp_flush", "ret_chk"}
            /\ lastExc[held[w]] = TimeoutExc) =>
            /\ results[held[w]].status = "timeout"
            /\ pc[w] \in {"pp_write", "pp_flush"} => snap[w].runs[held[w]].status = "timeout"

\* C25 (timeout supervisor): with timeout_seconds > 0 the cancel event is set
\* only after a wait on the done event that ended with the event unset, and
\* it is set before BatchRunTimeoutError is raised; when the wait finds the
\* run completed, the run's result is returned or its exception re-raised
\* and the cancel event stays unset; with timeout_seconds <= 0 the run is
\* executed by the caller and the cancel event is never set.
C25_Supervisor ==
    /\ [](\A w \in Workers :
            /\ timeout_seconds <= 0 =>
                  ~cancel_event[w] /\ sret[w] \in {"none"} \cup RunOutcomes
            /\ (spc[w] = "raise" \/ sret[w] = "BatchRunTimeoutError") =>
                  cancel_event[w] /\ timeout_seconds > 0
            /\ (spc[w] = "check" \/ sret[w] \in RunOutcomes \cup {"RuntimeError"}) =>
                  ~cancel_event[w])
    /\ [][\A w \in Workers :
            /\ (~cancel_event[w] /\ cancel_event'[w]) => spc[w] = "expired"
            /\ (spc[w] # "expired" /\ spc'[w] = "expired") =>
                  ~done_event[w] /\ timeout_seconds > 0
            /\ (spc[w] = "wait" /\ spc'[w] = "check") => done_event[w]
            /\ (spc[w] = "check" /\ spc'[w] = "idle") =>
                  \/ holder[w] = "result" /\ sret'[w] = "result"
                  \/ holder[w] = "error" /\ sret'[w] = "error"
            /\ (spc[w] = "sync" /\ spc'[w] = "idle") => sret'[w] \in RunOutcomes]_vars

\* C25 as the code has it: a run that completed with neither a result nor an
\* Exception in the holders makes the supervisor raise RuntimeError.
C25_SupervisorPayload ==
    /\ [](\A w \in Workers :
            /\ timeout_seconds <= 0 =>
                  ~cancel_event[w] /\ sret[w] \in {"none"} \cup RunOutcomes
            /\ (spc[w] = "raise" \/ sret[w] = "BatchRunTimeoutError") =>
                  cancel_event[w] /\ timeout_seconds > 0
            /\ (spc[w] = "check" \/ sret[w] \in RunOutcomes \cup {"RuntimeError"}) =>
                  ~cancel_event[w])
    /\ [][\A w \in Workers :
            /\ (~cancel_event[w] /\ cancel_event'[w]) => spc[w] = "expired"
            /\ (spc[w] # "expired" /\ spc'[w] = "expired") =>
                  ~done_event[w] /\ timeout_seconds > 0
            /\ (spc[w] = "wait" /\ spc'[w] = "check") => done_event[w]
            /\ (spc[w] = "check" /\ spc'[w] = "idle") =>
                  \/ holder[w] = "result" /\ sret'[w] = "result"
                  \/ holder[w] = "error" /\ sret'[w] = "error"
                  \/ holder[w] = "empty" /\ sret'[w] = "RuntimeError"
            /\ (spc[w] = "sync" /\ spc'[w] = "idle") => sret'[w] \in RunOutcomes]_vars

\* with a positive timeout, one supervised call has timed out (cancel event
\* set, BatchRunTimeoutError raised) and another has returned its run's
\* result with its cancel event unset
C25_Witness ==
    /\ timeout_seconds > 0
    /\ \E w, v \in Workers :
          /\ spc[w] = "idle" /\ sret[w] = "BatchRunTimeoutError" /\ cancel_event[w]
          /\ spc[v] = "idle" /\ sret[v] = "result" /\ ~cancel_event[v]

\* C26 (only the fatal classification escapes): an exception that is not
\* fatal is recorded as the status of the task it was raised for, whichever
\* part of the processing raised it, summary flushing included; a worker
\* leaves its loop only by one of the loop's returns (fatal flag set, or the
\* queue found empty); and run_eval raises only with the fatal flag set.
C26_OnlyFatalEscapes ==
    /\ [](\A w \in Workers :
            (pc[w] \in {"pp_snap", "pp_write", "pp_flush"} /\ ret[w] = "true"
                /\ lastExc[held[w]] # NoExc) =>
                results[held[w]].status = lastExc[held[w]].type)
    /\ [](main_pc = "raised" => fatal_event)
    /\ [][\A w \in Workers :
            /\ (pc[w] \in {"pp_write", "pp_flush"} /\ pc'[w] = "gen_snap") =>
                  results'[held[w]].status = OSErrorExc.type
            /\ (pc[w] \notin {"fin_exit", "exit"} /\ pc'[w] \in {"fin_exit", "exit"}) =>
                  \/ fatal_event'
                  \/ pc[w] = "empty" /\ queue = <<>>]_vars

\* C27 (a fatal abort does not cancel in-flight work): the step that sets the
\* fatal flag changes no cancel event, and a run's cancel event is set only by
\* that run's own timeout; when run_eval raises, every task that was being
\* executed when the flag was set has a RunResult, the summary on disk has
\* it as the results map has it, and the total cost, in the state and on
\* disk, is the sum of the recorded costs.
C27_FatalKeepsInFlight ==
    /\ [][/\ (~fatal_event /\ fatal_event') => cancel_event' = cancel_event
          /\ \A w \in Workers : (~cancel_event[w] /\ cancel_event'[w]) =>
                /\ pc[w] = "pp_run"
                /\ lastExc'[held[w]] = TimeoutExc]_vars
    /\ [](main_pc = "raised" =>
            /\ disk.exists /\ disk.whole
            /\ disk.total_cost = total_cost
            /\ total_cost = SumCost(results, Tasks)
            /\ \A t \in inflightAtFatal :
                  /\ results[t] # NoResult
                  /\ t \in DOMAIN disk.runs
                  /\ disk.runs[t] = results[t])

\* run_eval has raised, and a task that another worker was executing when the
\* flag was set has ended submitted, with its cost in the summary on disk
C27_Witness ==
    /\ main_pc = "raised"
    /\ \E t \in inflightAtFatal :
          /\ results[t] = [status |-> "submitted", cost |-> AgentCost]
          /\ disk.runs[t] = results[t]
          /\ disk.total_cost >= AgentCost

\* C28 (bounded join on fatal): once the fatal flag is set and the queue is
\* drained, with no worker about to put a task back, run_eval eventually
\* raises BatchFatalError, also when the agent run of another worker never
\* ends.
C28_BoundedJoin ==
    (fatal_event /\ queue = <<>> /\ \A w \in Workers : pc[w] # "put") ~> (main_pc = "raised")

\* the run_ids of the dicts in the `runs` list of a document
RunIdsFound(doc) ==
    LET runs == Get(doc, "runs", JList(<<>>)) IN
    { Str(Get(runs.v[i], "run_id", JStr(""))) :
        i \in { j \in 1..Len(runs.v) : runs.v[j].t = "obj" } } \ {""}

\* C29 (summary loading by input class): a missing file gives an empty
\* results map and total cost 0; a file that is not JSON, or whose `runs` is
\* not a list, gives ValueError and no state; every other file gives one
\* RunResult per run_id found in `runs` and the stored total_cost.
C29_LoadByClass ==
    store_pc = "loaded" =>
        IF summary_file = Missing THEN load_ret = Returned(EmptyMap, 0)
        ELSE IF summary_file = Garbage
                \/ (summary_file.t = "obj"
                      /\ Get(summary_file, "runs", JList(<<>>)).t # "list")
             THEN load_ret = Raised("ValueError")
        ELSE /\ load_ret.exc = "none"
             /\ DOMAIN load_ret.results = RunIdsFound(summary_file)
             /\ \A id \in DOMAIN load_ret.results : load_ret.results[id].run_id = id
             /\ load_ret.total_cost = OrZero(Get(summary_file, "total_cost", JNum(0)))

\* C30 (summary round trip): loading the document written from a state gives
\* back the state's run_id -> RunResult mapping, field by field, and its
\* total_cost.
C30_RoundTrip ==
    store_pc = "reloaded" =>
        /\ load_ret.exc = "none"
        /\ load_ret.results = st_results
        /\ load_ret.total_cost = st_total_cost

\* a state of two runs, one submitted with a cost, a submission and an
\* evaluation, one failed with an error message, has been written and loaded
C30_Witness ==
    /\ store_pc = "reloaded"
    /\ DOMAIN st_results = RunIds
    /\ st_total_cost = AgentCost
    /\ \E a, b \in RunIds :
          /\ st_results[a].status = "submitted" /\ st_results[a].cost.total = AgentCost
          /\ st_results[a].submission # JNull /\ st_results[a].evaluation # JNull
          /\ st_results[b].status = "RuntimeError" /\ st_results[b].error # JNull
          /\ load_ret.results[a] = st_results[a] /\ load_ret.results[b] = st_results[b]

\* the valid rows of a file, in file order
RECURSIVE ValidRows(_)
ValidRows(lines) ==
    IF lines = <<>> THEN <<>>
    ELSE IF Head(lines).kind = "row" THEN <<Head(lines)>> \o ValidRows(Tail(lines))
    ELSE ValidRows(Tail(lines))

\* C31 (task ids are unique at load time): load_problems either returns one
\* task per non-blank line, with pairwise distinct ids, or raises the
\* validation error ValueError; it returns when every line is blank or a
\* valid row and the rows' explicit ids are distinct, non-empty and not of the
\* auto-generated form.
C31_UniqueIds ==
    lp_pc = "loaded" =>
        /\ lp_ret.exc \in {"none", "ValueError"}
        /\ lp_ret.exc = "none" =>
              /\ Len(lp_ret.run_ids) = Len(ValidRows(jsonl))
              /\ \A i, j \in 1..Len(lp_ret.run_ids) :
                    i # j => lp_ret.run_ids[i] # lp_ret.run_ids[j]
        /\ (\A i \in 1..Len(jsonl) :
                /\ jsonl[i].kind \in {"blank", "row"}
                /\ jsonl[i].task_id \in {NoneId, "x"}
                /\ \A j \in 1..Len(jsonl) :
                      (i # j /\ jsonl[i].task_id = "x") => jsonl[j].task_id # "x")
              => lp_ret.exc = "none"


\* C32 (summary on every exit): whenever a worker leaves process_problem, by
\* a return (budget skip, success, retry, timeout, permanent failure) or by
\* the fatal re-raise, that very step completes the write of the summary
\* the call built in its finally clause.
C32_SummaryOnEveryExit ==
    [][\A w \in Workers :
          (InProcessProblem(w) /\ ~InProcessProblem(w)') =>
              /\ pc[w] = "pp_flush"
              /\ snap[w] # NoSnap
              /\ disk' = snap[w]
              /\ pc'[w] = CASE ret[w] = "fatal" -> "fatal"
                            [] ret[w] = "false" -> "ret_chk"
                            [] OTHER -> AfterTry]_vars

\* a worker has just left process_problem through the fatal re-raise and the
\* file holds the summary with the task's auth_error
C32_Witness ==
    \E w \in Workers :
        /\ pc[w] = "fatal"
        /\ held[w] \in DOMAIN results
        /\ results[held[w]].status = "auth_error"
        /\ disk = SummaryOf(total_cost, results)

\* initial_total_cost: the total of the resumed summary, or 0
InitialTotalCost == IF Resuming THEN prior.total_cost ELSE 0

\* the tasks whose attempt in this run took the success path
SucceededHere == { t \in Tasks : attempts[t] > 0 /\ results[t].status = "submitted" }

\* C33 (no lost cost update): once run_eval has finished, total_cost is the
\* initial total plus the cost of every task that succeeded in this run,
\* each counted once, whatever the interleaving of the workers.
C33_NoLostCost ==
    main_pc \in {"returned", "raised"} =>
        total_cost = InitialTotalCost + SumCost(results, SucceededHere)

\* run_eval has returned after every task succeeded with a cost in this run
C33_Witness ==
    /\ main_pc = "returned"
    /\ SucceededHere = Tasks
    /\ Cardinality(Tasks) > 1
    /\ \A t \in Tasks : results[t].cost > 0
    /\ total_cost = SumCost(results, Tasks)

\* C34 (retries go to the back): a task that a worker holds for an attempt
\* has no task left of those that were queued when it was last re-enqueued;
\* and a worker whose attempt returned done=false and that finds the fatal
\* flag set goes on to the finally clause without touching the queue.  The
\* queue only ever grows by the put of a worker that found the flag clear.
C34_RetriesToBack ==
    /\ [](\A w \in Workers :
            pc[w] \in {"chk", "pp_enter", "pp_run"} => ahead[held[w]] = {})
    /\ [][\A w \in Workers :
            (pc[w] = "ret_chk" /\ fatal_event /\ pc'[w] # pc[w]) =>
                (pc'[w] = "fin_loop" /\ queue' = queue)]_vars
    /\ [][\A w \in Workers :
            (pc'[w] = "put" /\ pc[w] # "put") => (pc[w] = "ret_chk" /\ ~fatal_event)]_vars
    /\ [][(main_pc # "seed" /\ Len(queue') > Len(queue)) =>
            (\E w \in Workers : pc[w] = "put" /\ Range(queue') = Range(queue) \cup {held[w]})]_vars

\* a rate-limited task is back in the queue behind a task that was queued
\* when it was re-enqueued
C34_Witness ==
    \E t \in Tasks :
        /\ ahead[t] # {}
        /\ retries[t] > 0
        /\ \E i, j \in 1..Len(queue) : i < j /\ queue[j] = t /\ queue[i] \in ahead[t]

\* C36 (every pause ends): the gate is paused exactly when one auto-resume
\* Timer is pending, and never more than one is; a Timer that fires finds
\* the gate paused and resumes it; so a paused gate is resumed again, and a
\* caller inside wait_if_paused whose cancel event is not set returns true
\* unless its cancel event is set in the meantime.
C36_EveryPauseEnds ==
    /\ [](timers \in {0, 1} /\ (~gate_resumed <=> timers = 1))
    /\ [][timers' < timers => (~gate_resumed /\ gate_resumed' /\ timers' = 0)]_vars
    /\ (~gate_resumed) ~> gate_resumed
    /\ \A w \in Workers :
          (Waiting(w) /\ ~cancelled[w]) ~>
              ((~Waiting(w) /\ gret[w] = "true") \/ cancelled[w])

\* the gate is paused for the second time, with one Timer pending, after a
\* caller that the first pause blocked has returned true
C36_Witness ==
    /\ pauses = 2 /\ ~gate_resumed /\ timers = 1
    /\ \E w \in Workers : gret[w] = "true" /\ blocked[w] /\ ~cancelled[w] /\ gpc[w] = "idle"

\* C35 (cancellation at step boundaries): a step called with the cancel
\* event set raises BatchRunTimeoutError at its first test; a step whose
\* wait on the gate saw the cancel event (wait_if_paused returned false)
\* raises; the underlying step is only entered by a call whose wait
\* returned true; and BatchForecastAgent.step enters the underlying step
\* only in a step that finds the cancel event clear.
C35_CancelAtStepBoundary ==
    [][\A w \in Workers :
          /\ (step_pc[w] = "guard" /\ cancelled[w] /\ step_pc'[w] # "guard") => step_pc'[w] = "raised"
          /\ (step_pc[w] = "wait" /\ gret[w] = "false" /\ step_pc'[w] # "wait") => step_pc'[w] = "raised"
          /\ (step_pc[w] # "under" /\ step_pc'[w] = "under") =>
                  /\ gret[w] = "true"
                  /\ ~stepped[w]
                  /\ agent_kind[w] = "batch" => ~cancelled[w]
          /\ (step_pc[w] # "post" /\ step_pc'[w] = "post") => step_pc[w] = "under"]_vars

\* a BatchForecastAgent whose cancel event was set while it waited on the
\* paused gate has come out of the wait with true, the gate having been
\* resumed first, and has raised without running its underlying step
C35_Witness ==
    \E w \in Workers :
        /\ agent_kind[w] = "batch"
        /\ step_pc[w] = "raised"
        /\ gret[w] = "true" /\ blocked[w]
        /\ cancelled[w] /\ ~stepped[w]

\* C37 (an abandoned run changes nothing): the step in which the thread of
\* a timed-out run ends, with a forecast or with an exception, changes no
\* RunResult, not total_cost, no retries counter, not the queue or its
\* count, not the fatal flag or message and not the summary file; and from
\* the timeout on the task's RunResult stays the timeout with no cost and
\* the task is not queued again.
C37_AbandonedRunInert ==
    /\ [][\A t \in Tasks :
            (detached[t] = "running" /\ detached'[t] # "running") =>
                /\ results' = results /\ total_cost' = total_cost /\ retries' = retries
                /\ queue' = queue /\ unfinished' = unfinished
                /\ fatal_event' = fatal_event /\ fatal_error' = fatal_error
                /\ disk' = disk]_vars
    /\ [](\A t \in Tasks :
            detached[t] # "none" =>
                /\ results[t] = [status |-> TimeoutExc.type, cost |-> 0]
                /\ t \notin Range(queue)
                /\ t \notin SucceededHere)

\* run_eval has returned after a run that had timed out ended with a
\* forecast, while another task succeeded with a cost
C37_Witness ==
    /\ main_pc = "returned"
    /\ \E t \in Tasks : detached[t] = "result" /\ results[t].status = TimeoutExc.type
    /\ total_cost > 0

\* the tasks whose cost this run has added to total_cost
Charged == { t \in SucceededHere : \A w \in Workers : ~(held[w] = t /\ pc[w] = "pp_addcost") }

\* C38 (only successful attempts are charged): total_cost changes only in
\* the step that adds the cost of an attempt that succeeded; a RunResult's
\* cost changes only in the step in which its attempt succeeds; so the
\* total the budget gate reads is always the initial total plus the costs of
\* the tasks that succeeded, whatever the failed attempts had spent.
C38_OnlySuccessCharged ==
    /\ [][(main_pc # "resolve" /\ total_cost' # total_cost) =>
            (\E w \in Workers :
                /\ pc[w] = "pp_addcost" /\ pc'[w] = "pp_snap"
                /\ results[held[w]].status = "submitted"
                /\ total_cost' = total_cost + results[held[w]].cost)]_vars
    /\ [][\A t \in Tasks :
            (main_pc # "resolve" /\ results'[t].cost # results[t].cost) =>
                (\E w \in Workers : held[w] = t /\ pc[w] = "pp_run" /\ pc'[w] = "pp_addcost")]_vars
    /\ [](main_pc \notin {"resolve", "exit1"} =>
            total_cost = InitialTotalCost + SumCost(results, Charged))

\* run_eval has returned: one task's attempt failed and left no cost, and
\* the total is the cost of the task that succeeded
C38_Witness ==
    /\ main_pc = "returned"
    /\ \E t, u \in Tasks :
          /\ attempts[t] > 0 /\ lastExc[t] # NoExc /\ results[t].cost = 0
          /\ results[u].status = "submitted" /\ results[u].cost > 0
          /\ total_cost = InitialTotalCost + results[u].cost

\* how many times task t is in the queue
QueuedCount(t) == Cardinality({ i \in 1..Len(queue) : queue[i] = t })

\* worker w has taken task t from the queue and has not yet put it back,
\* finished it or given it up
InFlightOn(w, t) ==
    /\ held[w] = t
    /\ pc[w] \in {"chk", "pp_enter", "pp_run", "pp_addcost", "pp_snap", "pp_write", "pp_flush",
                  "ret_chk", "put", "fatal", "gen_snap", "gen_write", "gen_flush"}

\* the workers that have task t in flight
Holders(t) == { w \in Workers : InFlightOn(w, t) }

\* C39 (task conservation): once the queue is seeded, every input task is
\* queued at most once and in flight on at most one worker, never both; a
\* task that is neither has a terminal status or the fatal flag is set; and
\* a task whose status is terminal is not in the queue.  A step that changes
\* a task's RunResult or retries counter is a step of the one worker that
\* has it in flight.
C39_TaskConservation ==
    /\ [](main_pc \notin {"resolve", "seed", "exit0", "exit1"} =>
            \A t \in Range(problems) :
                /\ QueuedCount(t) + Cardinality(Holders(t)) <= 1
                /\ (QueuedCount(t) + Cardinality(Holders(t)) = 0) =>
                        (IsTerminal(results[t].status) \/ fatal_event)
                /\ IsTerminal(results[t].status) => QueuedCount(t) = 0)
    /\ [][\A t \in Tasks :
            (main_pc # "resolve" /\ (results'[t] # results[t] \/ retries'[t] # retries[t])) =>
                (\E w \in Workers : Holders(t) = {w} /\ pc'[w] # pc[w])]_vars

\* a rate-limited task is queued again while the other task is being run
C39_Witness ==
    \E t, u \in Tasks :
        /\ t # u
        /\ QueuedCount(t) = 1 /\ retries[t] > 0 /\ Holders(t) = {}
        /\ QueuedCount(u) = 0
        /\ \E w \in Workers : Holders(u) = {w} /\ pc[w] = "pp_run"

\* worker w has taken an item with get and has not yet called task_done for it
Unacked(w) ==
    pc[w] \in {"chk", "pp_enter", "pp_run", "pp_addcost", "pp_snap", "pp_write", "pp_flush",
               "ret_chk", "put", "fatal", "drain", "gen_snap", "gen_write", "gen_flush",
               "fin_loop", "fin_exit"}

\* C40 (queue accounting): the queue's unfinished count is the number of
\* queued items plus the number of workers between a get and its task_done,
\* and is never negative; the count goes down by one at a time, in the
\* finally clause of the worker that took the item or in the drain's
\* task_done for the item it removes; and queue.join() returns only when
\* nothing is queued and no worker holds an item.
C40_QueueAccounting ==
    /\ [](/\ unfinished >= 0
          /\ unfinished = Len(queue) + Cardinality({ w \in Workers : Unacked(w) }))
    /\ [][\A w \in Workers :
            (Unacked(w) /\ ~Unacked(w)') =>
                (pc[w] \in {"fin_loop", "fin_exit"} /\ unfinished' = unfinished - 1 /\ queue' = queue)]_vars
    /\ [][unfinished' < unfinished =>
            /\ unfinished' = unfinished - 1
            /\ \/ \E w \in Workers : Unacked(w) /\ ~Unacked(w)'
               \/ \E w \in Workers : pc[w] = "drain" /\ queue # <<>> /\ queue' = Tail(queue)]_vars
    /\ [][(main_pc = "join" /\ main_pc' # "join") =>
            (queue = <<>> /\ \A w \in Workers : ~Unacked(w))]_vars

\* a worker has put its rate-limited task back and has not yet acknowledged
\* the get, while the fatal handler of the other worker drains the queue
C40_Witness ==
    \E w, v \in Workers :
        /\ pc[w] = "fin_loop" /\ ret[w] = "false" /\ held[w] \in Range(queue)
        /\ pc[v] = "drain"
        /\ unfinished = Len(queue) + 2
====
